---- MODULE Spec2Model ----
(***************************************************************************)
(* Verification model of SriAI's coordination core:                        *)
(*   - PushToTalkListener   (src/push_to_talk.py)                          *)
(*   - ElevenLabsTTS        (src/elevenlabs_tts.py)                        *)
(*   - LocalTTS             (src/local_tts.py)                             *)
(*   - AIAssistant          (src/ai_assistant.py)                          *)
(*   - LocalVoiceListener   (src/local_voice_listener.py)                  *)
(*   - VoiceHandler         (src/voice_handler.py)                         *)
(*                                                                         *)
(* Time is counted in half seconds (the resolution of                      *)
(* min_recording_duration = 0.5 s): a duration of n means n * 0.5 s.       *)
(* Each component has its own specification; the variables of the other    *)
(* components stay unchanged in it.                                        *)
(***************************************************************************)
EXTENDS Integers, Sequences, FiniteSets, Bags, TLC

(***************************************************************************)
(* Bounds of the model                                                     *)
(***************************************************************************)
\* number of recording sessions (threads started by _start_recording)
MaxSessions == 2
\* number of audio chunks one recording thread appends to audio_chunks
MaxChunks == 1
\* number of times the wall clock is advanced
MaxTicks == 2
\* number of speak_async coroutines of ElevenLabsTTS that can be in flight
MaxRequests == 2
\* number of calendar-day changes
MaxDay == 1
\* number of LocalTTS._speak_async tasks created
MaxUtterances == 3
\* number of characters of a text given to _optimize_text
MaxTextLen == 7
\* number of words of a message given to should_respond
MaxWords == 3
\* number of process_message calls made for one message of the vocabulary
MaxWordTurns == 1
\* length of conversation_history beyond which no entry is appended
MaxHistoryLen == 11
\* number of System entries in conversation_history beyond which
\* add_system_message is not called
MaxSystemNotes == 1
\* number of transcriptions on the voice path
MaxVoiceInputs == 2
\* number of _listen_loop threads that exist at the same time
MaxThreads == 2
\* recordings made in the runs that follow every notification
MaxRecordings == 1
\* speak_text calls
MaxSpeakTexts == 2
\* the longest JunAI history from which ask_chatgpt is still called
MaxJunHistory == 10

(***************************************************************************)
(* Program constants of PushToTalkListener, in half seconds                *)
(***************************************************************************)
\* self.min_recording_duration = 0.5
min_recording_duration == 1
\* self.max_recording_duration = 30.0
max_recording_duration == 60

\* recognizer.listen(source, timeout=0.5, ...)
listen_timeout == 1
\* recognizer.listen(source, ..., phrase_time_limit=2)
phrase_time_limit == 4

\* amounts by which time.time() advances in one step
TimeSteps == {listen_timeout, phrase_time_limit, max_recording_duration}

Sessions == 1..MaxSessions

\* the user ids given to ask_chatgpt
JunUsers == {"local_user", "viewer"}

(***************************************************************************)
(* Program constants of ElevenLabsTTS                                      *)
(***************************************************************************)
\* self.config["max_chars_per_request"]
max_chars_per_request == 500
\* self.config["daily_char_limit"]
daily_char_limit == 5000

Utterances == 1..MaxUtterances

\* values of self.config["max_chars_per_request"] under which texts of up to
\* MaxTextLen characters are both within and over the bound
SmallMaxChars == {4, 5}

\* A text is given by the lengths of the pieces that text.split('.') yields
\* once whitespace is collapsed, and by ws, the number of characters that
\* collapsing the whitespace removes.
\*   TextShort:     200 characters padded with 400 blanks, no period
\*   TextSentences: 800 characters in three sentences
\*   TextLong:      800 characters without a period
TextShort == [pieces |-> <<200>>, ws |-> 400]
TextSentences == [pieces |-> <<299, 300, 199>>, ws |-> 0]
TextLong == [pieces |-> <<800>>, ws |-> 0]
Texts == {TextShort, TextSentences, TextLong}

VARIABLES
    \* ---- PushToTalkListener ----
    microphone,            \* self.microphone is not None
    is_listening_active,   \* self.is_listening_active
    is_recording,          \* self.is_recording
    recording_start_time,  \* self.recording_start_time
    mic_stream_open,       \* self.microphone is inside a `with` block
    kbd,                   \* position of the keyboard-listener thread
    nSessions,             \* number of recording threads started so far
    thr,                   \* thr[s]: recording thread of session s
    sess,                  \* sess[s]: what happened for session s
    clock,                 \* time.time()
    ticks,                 \* number of clock advances so far
    notifications,         \* the values given to recording_state_callback,
                           \* in the order of the calls
    \* ---- ElevenLabsTTS ----
    el_available,          \* self.available
    daily_usage,           \* self.daily_usage
    last_reset_date,       \* self.last_reset_date
    today,                 \* date.today()
    req,                   \* the bag of speak_async coroutines in flight
    lastOp,                \* the last ElevenLabsTTS step and its outcome
    \* ---- LocalTTS ----
    lt_available,          \* self.available
    is_speaking,           \* self.is_speaking
    utt,                   \* utt[i]: position of the i-th _speak_async task
    speak_result,          \* value returned by the last speak() call
    \* ---- ElevenLabsTTS._optimize_text on character strings ----
    opt_text,              \* the argument text
    opt_max,               \* self.config["max_chars_per_request"]
    opt_result,            \* the returned string, once the call is done
    \* ---- AIAssistant ----
    api_key,               \* self.api_key is set
    conversation_history,  \* self.conversation_history
    current_game,          \* self.current_game
    ai_last,               \* the last AIAssistant call and what it returned
    word_input,            \* the message of the single-function calls
    \* ---- the voice path ----
    lvl_microphone,        \* LocalVoiceListener: self.microphone is set
    lvl_is_listening,      \* LocalVoiceListener: self.is_listening
    voice_queue,           \* LocalVoiceListener: self.voice_queue
    last_voice_input,      \* LocalVoiceListener: self.last_voice_input
    last_input_time,       \* LocalVoiceListener: self.last_input_time
    callback_args,         \* transcripts given to callback_func, not yet
                           \* processed
    heard,                 \* the last transcription and what it handed on
    nHeard,                \* number of transcriptions so far
    recent_voice_inputs,   \* VoiceHandler: self.recent_voice_inputs
    recent_voice_responses, \* StreamAIBot: self.recent_voice_responses
    last_voice_interaction_time, \* VoiceHandler: the attribute of that name
    sri_is_speaking,       \* VoiceHandler: self.sri_is_speaking
    resume_tasks,          \* _resume_voice_listening_after_speech tasks
    vh,                    \* the _process_voice_input call: its position
                           \* and what the last call did
    \* ---- PushToTalkListener: configuration ----
    talk_key,              \* self.talk_key
    start_result,          \* value returned by the last start_listening call
    \* ---- LocalVoiceListener threads and the voice connection ----
    lvl_threads,           \* lvl_threads[t]: position of _listen_loop
                           \* thread t
    listen_thread,         \* LocalVoiceListener: self.listen_thread, 0 for
                           \* None
    voice_client,          \* VoiceHandler: self.voice_client
    orch_last,             \* the last of the voice handler's
                           \* start_listening, join_channel, the leave
                           \* command and the cleanup of the bot
    \* ---- VoiceHandler: the pyttsx3 worker thread ----
    tts_queue,             \* self.tts_queue
    tts_worker,            \* the _tts_worker thread: its position and the
                           \* number of texts it has synthesized
    \* ---- JunAI ----
    user_histories,        \* user_histories[u]: the roles of the entries of
                           \* user u's history, <<>> without an entry for u
    jun_last               \* the last ask_chatgpt call and how it ended

pttVars == <<microphone, is_listening_active, is_recording,
             recording_start_time, mic_stream_open, kbd, nSessions, thr,
             sess, clock, ticks,
                   notifications>>

elVars == <<el_available, daily_usage, last_reset_date, today, req, lastOp>>

ltVars == <<lt_available, is_speaking, utt, speak_result>>

optVars == <<opt_text, opt_max, opt_result>>

aiVars == <<api_key, conversation_history, current_game, ai_last, word_input>>

voiceVars == <<lvl_microphone, lvl_is_listening, voice_queue,
               last_voice_input, last_input_time, callback_args, heard,
               nHeard, recent_voice_inputs, recent_voice_responses,
               last_voice_interaction_time, sri_is_speaking, resume_tasks,
               vh>>

cfgVars == <<talk_key, start_result>>

lvlVars == <<lvl_threads, listen_thread, voice_client, orch_last>>
ttsVars == <<tts_queue, tts_worker>>
junVars == <<user_histories, jun_last>>

vars == <<pttVars, elVars, ltVars, optVars, aiVars, voiceVars, cfgVars, ttsVars, junVars,
          lvlVars>>

\* the variables of the other components, which a component's step leaves
\* unchanged
notPTT == <<elVars, ltVars, optVars, aiVars, voiceVars, cfgVars, ttsVars, junVars,
            lvlVars>>
notEL == <<pttVars, ltVars, optVars, aiVars, voiceVars, cfgVars, ttsVars, junVars,
           lvlVars>>
notLT == <<pttVars, elVars, optVars, aiVars, voiceVars, cfgVars, ttsVars, junVars,
           lvlVars>>
notOpt == <<pttVars, elVars, ltVars, aiVars, voiceVars, cfgVars, ttsVars, junVars,
            lvlVars>>
notAI == <<pttVars, elVars, ltVars, optVars, voiceVars, cfgVars, ttsVars, junVars,
           lvlVars>>
notVoice == <<pttVars, elVars, ltVars, optVars, aiVars, cfgVars, ttsVars, junVars,
              lvlVars>>
\* for the steps of the voice path that call process_message or speak
notVoiceAI == <<pttVars, elVars, ltVars, optVars, cfgVars, ttsVars, junVars,
                lvlVars>>
notVoiceLT == <<pttVars, elVars, optVars, aiVars, cfgVars, ttsVars, junVars,
                lvlVars>>
\* for the calls of PushToTalkListener that report their result
notCfg == <<elVars, ltVars, optVars, aiVars, voiceVars, lvlVars,
           ttsVars, junVars>>
\* for the steps of the voice path that start, pause or stop the listener's
\* thread
notListener == <<pttVars, elVars, ltVars, optVars, aiVars, cfgVars, ttsVars, junVars>>
notListenerLT == <<pttVars, elVars, optVars, aiVars, cfgVars, ttsVars, junVars>>

(***************************************************************************)
(* PushToTalkListener                                                      *)
(***************************************************************************)
\* a recording thread: its position in _record_audio, len(audio_chunks) and
\* the time at which its current recognizer.listen call began
NoThread == [pc |-> "none", chunks |-> 0, t0 |-> 0]

\* bookkeeping of one session: how the key release was classified
\* ("none" until _stop_recording runs for it), the number of calls of
\* _process_recorded_audio, of those that reached recognize_google and of
\* those that called callback_func, and whether stop_listening found the
\* session recording
NoSession ==
    [rel |-> "none", proc |-> 0, recog |-> 0, cb |-> 0, stopped |-> FALSE]

\* recording_duration = time.time() - self.recording_start_time
RecordingDuration == clock - recording_start_time

\* threads that are executing _record_audio
InRecordAudio == {s \in Sessions : thr[s].pc \notin {"none", "done"}}

\* `if self.recording_state_callback: try: self.recording_state_callback(v)
\* except Exception: logger.warning(...)`: the listener is called with v; an
\* exception it raises is caught there, so the caller goes on either way
NotifyRecordingState(v) == Append(notifications, v)

\* PushToTalkListener.__init__
PTTInit ==
    /\ microphone \in BOOLEAN
    /\ is_listening_active = FALSE
    /\ is_recording = FALSE
    /\ recording_start_time = 0
    /\ mic_stream_open = FALSE
    /\ kbd = "idle"
    /\ nSessions = 0
    /\ thr = [s \in Sessions |-> NoThread]
    /\ sess = [s \in Sessions |-> NoSession]
    /\ clock = 0
    /\ ticks = 0
    /\ notifications = <<>>

\* time passes; a recognizer.listen call is time-boxed: it waits at most
\* listen_timeout for speech to start and records at most phrase_time_limit
Tick ==
    /\ ticks < MaxTicks
    /\ \E d \in TimeSteps :
          /\ \A s \in Sessions :
                thr[s].pc = "listen" =>
                    clock + d - thr[s].t0 <= listen_timeout + phrase_time_limit
          /\ clock' = clock + d
    /\ ticks' = ticks + 1
    /\ UNCHANGED <<microphone, is_listening_active, is_recording,
                   recording_start_time, mic_stream_open, kbd, nSessions,
                   thr, sess, notifications>>
    /\ UNCHANGED notPTT

\* start_listening: fails without a microphone, else creates the keyboard
\* listener
StartListeningBody ==
    /\ microphone
    /\ ~is_listening_active
    /\ is_listening_active' = TRUE
    /\ UNCHANGED <<microphone, is_recording, recording_start_time,
                   mic_stream_open, kbd, nSessions, thr, sess, clock, ticks,
                   notifications>>

StartListening ==
    /\ StartListeningBody
    /\ UNCHANGED notPTT

\* the session that is recording: is_recording is set and the thread
\* started last has not left its loop
RecordingSession(s) ==
    /\ is_recording
    /\ s = nSessions
    /\ thr[s].pc \in {"start", "loop", "listen"}

\* stop_listening: stops the keyboard listener and clears is_recording;
\* the join of the recording thread gives up after 2 seconds
StopListeningBody ==
    /\ is_listening_active' = FALSE
    /\ is_recording' = FALSE
    /\ sess' = [s \in Sessions |->
                  IF RecordingSession(s)
                  THEN [sess[s] EXCEPT !.stopped = TRUE]
                  ELSE sess[s]]
    /\ UNCHANGED <<microphone, recording_start_time, mic_stream_open, kbd,
                   nSessions, thr, clock, ticks,
                   notifications>>

\* stop_listening called on its own
StopListening ==
    /\ StopListeningBody
    /\ UNCHANGED notPTT

\* _on_key_press for the talk key: ignored while is_recording, else the
\* handler notifies recording_state_callback(True) and goes on to
\* _start_recording
OnKeyPress ==
    /\ is_listening_active
    /\ kbd = "idle"
    /\ is_recording \/ nSessions < MaxSessions
    /\ kbd' = IF is_recording THEN "idle" ELSE "start_recording"
    /\ notifications' = IF is_recording THEN notifications
                        ELSE NotifyRecordingState(TRUE)
    /\ UNCHANGED <<microphone, is_listening_active, is_recording,
                   recording_start_time, mic_stream_open, nSessions, thr,
                   sess, clock, ticks>>
    /\ UNCHANGED notPTT

\* _start_recording: sets the flag and the start time, starts the thread
StartRecording ==
    /\ kbd = "start_recording"
    /\ kbd' = "idle"
    /\ IF is_recording
       THEN UNCHANGED <<is_recording, recording_start_time, nSessions, thr>>
       ELSE /\ nSessions < MaxSessions
            /\ is_recording' = TRUE
            /\ recording_start_time' = clock
            /\ nSessions' = nSessions + 1
            /\ thr' = [thr EXCEPT ![nSessions + 1] =
                          [pc |-> "start", chunks |-> 0, t0 |-> 0]]
    /\ UNCHANGED <<microphone, is_listening_active, mic_stream_open, sess,
                   clock, ticks,
                   notifications>>
    /\ UNCHANGED notPTT

\* how _stop_recording classifies the duration of the session it ends
Classify(d) ==
    IF d < min_recording_duration THEN "short"
    ELSE IF d <= max_recording_duration THEN "ok" ELSE "long"

\* _on_key_release for the talk key, with _stop_recording: both branches
\* of the minimum-duration test clear is_recording
OnKeyRelease ==
    /\ is_listening_active
    /\ kbd = "idle"
    /\ is_recording
    /\ is_recording' = FALSE
    /\ notifications' = NotifyRecordingState(FALSE)
    /\ sess' = [sess EXCEPT ![nSessions].rel = Classify(RecordingDuration)]
    /\ UNCHANGED <<microphone, is_listening_active, recording_start_time,
                   mic_stream_open, kbd, nSessions, thr, clock, ticks>>
    /\ UNCHANGED notPTT

\* _record_audio, `with self.microphone as source`: Microphone.__enter__
\* asserts that the source is not already inside a context manager
RecEnterMic(s) ==
    /\ thr[s].pc = "start"
    /\ IF mic_stream_open
       THEN /\ thr' = [thr EXCEPT ![s].pc = "finally"]
            /\ UNCHANGED mic_stream_open
       ELSE /\ thr' = [thr EXCEPT ![s].pc = "loop"]
            /\ mic_stream_open' = TRUE
    /\ UNCHANGED <<microphone, is_listening_active, is_recording,
                   recording_start_time, kbd, nSessions, sess, clock, ticks,
                   notifications>>
    /\ UNCHANGED notPTT

RecLoopTestUnchecked(s) ==
    /\ thr[s].pc = "loop"
    /\ thr' = [thr EXCEPT ![s] = [@ EXCEPT !.pc = "listen", !.t0 = clock]]
    /\ UNCHANGED <<microphone, is_listening_active, is_recording,
                   recording_start_time, mic_stream_open, kbd, nSessions,
                   sess, clock, ticks, notifications>>
    /\ UNCHANGED notPTT

\* _record_audio, `while self.is_recording`
RecLoopTest(s) ==
    /\ thr[s].pc = "loop"
    /\ thr' = [thr EXCEPT ![s] =
                  IF is_recording
                  THEN [@ EXCEPT !.pc = "listen", !.t0 = clock]
                  ELSE [@ EXCEPT !.pc = "after_loop"]]
    /\ UNCHANGED <<microphone, is_listening_active, is_recording,
                   recording_start_time, mic_stream_open, kbd, nSessions,
                   sess, clock, ticks,
                   notifications>>
    /\ UNCHANGED notPTT

\* recognizer.listen returns a chunk, a phrase that ended by the phrase
\* time limit or by pause_threshold (2.0 s) of silence:
\* audio_chunks.append(audio_chunk)
RecListenChunk(s) ==
    /\ thr[s].pc = "listen"
    /\ thr[s].chunks < MaxChunks
    /\ clock - thr[s].t0 >= phrase_time_limit
    /\ thr' = [thr EXCEPT ![s] =
                  [pc |-> "loop", chunks |-> @.chunks + 1, t0 |-> 0]]
    /\ UNCHANGED <<microphone, is_listening_active, is_recording,
                   recording_start_time, mic_stream_open, kbd, nSessions,
                   sess, clock, ticks,
                   notifications>>
    /\ UNCHANGED notPTT

\* recognizer.listen raises WaitTimeoutError when no speech started within
\* the timeout: continue if still recording, else break
RecListenTimeout(s) ==
    /\ thr[s].pc = "listen"
    /\ clock - thr[s].t0 >= listen_timeout
    /\ thr' = [thr EXCEPT ![s] =
                  [@ EXCEPT !.pc = IF is_recording THEN "loop"
                                   ELSE "after_loop",
                            !.t0 = 0]]
    /\ UNCHANGED <<microphone, is_listening_active, is_recording,
                   recording_start_time, mic_stream_open, kbd, nSessions,
                   sess, clock, ticks,
                   notifications>>
    /\ UNCHANGED notPTT

\* recognizer.listen raises another exception: break
RecListenError(s) ==
    /\ thr[s].pc = "listen"
    /\ thr' = [thr EXCEPT ![s] = [@ EXCEPT !.pc = "after_loop", !.t0 = 0]]
    /\ UNCHANGED <<microphone, is_listening_active, is_recording,
                   recording_start_time, mic_stream_open, kbd, nSessions,
                   sess, clock, ticks,
                   notifications>>
    /\ UNCHANGED notPTT

\* the test after the loop: audio is processed when there are chunks and
\* the duration, measured again here, reaches the minimum
ShouldProcess(chunks, duration) ==
    chunks > 0 /\ duration >= min_recording_duration

\* _record_audio after the loop; without processing the `with` block ends
RecAfterLoop(s) ==
    /\ thr[s].pc = "after_loop"
    /\ IF ShouldProcess(thr[s].chunks, RecordingDuration)
       THEN /\ thr' = [thr EXCEPT ![s].pc = "process"]
            /\ UNCHANGED mic_stream_open
       ELSE /\ thr' = [thr EXCEPT ![s].pc = "finally"]
            /\ mic_stream_open' = FALSE
    /\ UNCHANGED <<microphone, is_listening_active, is_recording,
                   recording_start_time, kbd, nSessions, sess, clock, ticks,
                   notifications>>
    /\ UNCHANGED notPTT

RecFinallySilent(s) ==
    /\ thr[s].pc = "finally"
    /\ thr' = [thr EXCEPT ![s].pc = "done"]
    /\ is_recording' = FALSE
    /\ UNCHANGED <<microphone, is_listening_active, recording_start_time,
                   mic_stream_open, kbd, nSessions, sess, clock, ticks,
                   notifications>>
    /\ UNCHANGED notPTT

\* _record_audio, finally: clears is_recording, notifies
\* recording_state_callback(False)
RecFinally(s) ==
    /\ thr[s].pc = "finally"
    /\ thr' = [thr EXCEPT ![s].pc = "done"]
    /\ is_recording' = FALSE
    /\ notifications' = NotifyRecordingState(FALSE)
    /\ UNCHANGED <<microphone, is_listening_active, recording_start_time,
                   mic_stream_open, kbd, nSessions, sess, clock, ticks>>
    /\ UNCHANGED notPTT

(***************************************************************************)
(* ElevenLabsTTS                                                           *)
(***************************************************************************)
RECURSIVE SumSeq(_)
SumSeq(q) == IF q = <<>> THEN 0 ELSE Head(q) + SumSeq(Tail(q))

\* len(text) of the raw text
RawLen(t) == SumSeq(t.pieces) + Len(t.pieces) - 1 + t.ws

\* len(' '.join(text.split())): the pieces joined by '.'
CollapsedLen(t) == SumSeq(t.pieces) + Len(t.pieces) - 1

\* the loop of _optimize_text over text.split('.'): the length of
\* `optimized` when the loop ends; acc is its length so far
RECURSIVE SentencePrefixLen(_, _)
SentencePrefixLen(pieces, acc) ==
    IF pieces = <<>> THEN acc
    ELSE IF acc + Head(pieces) + 1 <= max_chars_per_request
         THEN SentencePrefixLen(Tail(pieces), acc + Head(pieces) + 1)
         ELSE acc

\* len(self._optimize_text(text)): a text within the bound is kept; a longer
\* one is cut after the last sentence that fits, or, when none fits, to
\* text[:max_chars-3] + "..."
OptimizedLen(t) ==
    IF CollapsedLen(t) > max_chars_per_request
    THEN LET k == SentencePrefixLen(t.pieces, 0)
         IN  IF k = 0 THEN (max_chars_per_request - 3) + 3 ELSE k
    ELSE CollapsedLen(t)

\* the length speak_async passes to _check_usage_limit: len(optimized_text)
\* (CheckedLenRaw: the variant that passes len(text))
CheckedLenRaw(t) == RawLen(t)

CheckedLen(t) == OptimizedLen(t)

\* _reset_daily_usage_if_needed: the value of daily_usage after the call
\* (UsageNeverReset: the variant that keeps the counter on a new day)
UsageNeverReset == daily_usage

UsageAfterReset == IF last_reset_date # today THEN 0 ELSE daily_usage

\* _check_usage_limit(text_length), after the reset
\* (CheckUsageOnly: the variant that leaves the new text out of the sum)
CheckUsageOnly(used, text_length) ==
    ~(used > daily_char_limit)

CheckUsageLimit(used, text_length) ==
    ~(used + text_length > daily_char_limit)

\* the amount _text_to_speech_api adds to daily_usage for a response
\* outcome: len(text) once a 200 response has been read, nothing otherwise
\* (UsageIncrementAlways: the variant that counts every request)
UsageIncrementAlways(outcome, text_length) == text_length

UsageIncrement(outcome, text_length) ==
    IF outcome \in {"200", "200_empty"} THEN text_length ELSE 0

\* outcomes of the request in _text_to_speech_api: status 200 with audio,
\* status 200 with an empty body, status 200 whose body cannot be read,
\* status 429, another status, an exception raised by the request
ApiOutcomes ==
    {"200", "200_empty", "200_read_error", "429", "http_error", "exception"}

\* a speak_async coroutine suspended in the provider request, and one
\* suspended in the playback loop
AtApi(t) == [pc |-> "api", text |-> t]
AtPlayback(t) == [pc |-> "playback", text |-> t]
InFlight == BagToSet(req)

NoOp == [op |-> "none"]

\* ElevenLabsTTS.__init__ with an API key: self.available tells whether the
\* audio player could be initialised; the counter is reset to today
ELInit ==
    /\ el_available \in BOOLEAN
    /\ today = 0
    /\ daily_usage = 0
    /\ last_reset_date = 0
    /\ req = EmptyBag
    /\ lastOp = NoOp

\* speak_async up to its first await: availability, _optimize_text,
\* _check_usage_limit (with the daily reset), then the provider request
SpeakAsync(t) ==
    /\ BagCardinality(req) < MaxRequests
    /\ IF ~el_available
       THEN /\ lastOp' = [op |-> "speak_async", text |-> t,
                          outcome |-> "unavailable", result |-> FALSE]
            /\ UNCHANGED <<daily_usage, last_reset_date, req>>
       ELSE /\ daily_usage' = UsageAfterReset
            /\ last_reset_date' = today
            /\ IF CheckUsageLimit(UsageAfterReset, CheckedLen(t))
               THEN /\ req' = req (+) SetToBag({AtApi(t)})
                    /\ lastOp' = [op |-> "speak_async", text |-> t,
                                  outcome |-> "sent", result |-> FALSE]
               ELSE /\ lastOp' = [op |-> "speak_async", text |-> t,
                                  outcome |-> "quota", result |-> FALSE]
                    /\ UNCHANGED req
    /\ UNCHANGED <<el_available, today>>
    /\ UNCHANGED notEL

\* _text_to_speech_api resumes with the provider's response; speak_async
\* goes on to playback when it got audio and returns False otherwise
ApiResponse(t, outcome) ==
    /\ BagIn(AtApi(t), req)
    /\ daily_usage' = daily_usage + UsageIncrement(outcome, OptimizedLen(t))
    /\ req' = IF outcome = "200"
              THEN (req (-) SetToBag({AtApi(t)})) (+) SetToBag({AtPlayback(t)})
              ELSE req (-) SetToBag({AtApi(t)})
    /\ lastOp' = [op |-> "api_response", text |-> t,
                  outcome |-> outcome, result |-> FALSE]
    /\ UNCHANGED <<el_available, last_reset_date, today>>
    /\ UNCHANGED notEL

\* speak_async after the request: the audio is played to its end and True
\* is returned, or playing raises and False is returned
Playback(t, ok) ==
    /\ BagIn(AtPlayback(t), req)
    /\ req' = req (-) SetToBag({AtPlayback(t)})
    /\ lastOp' = [op |-> "playback", text |-> t,
                  outcome |-> IF ok THEN "played" ELSE "playback_error",
                  result |-> ok]
    /\ UNCHANGED <<el_available, daily_usage, last_reset_date, today>>
    /\ UNCHANGED notEL

\* the dictionary get_usage_info returns for a value of daily_usage;
\* cost_estimate_today = daily_usage * 0.00075 is counted in units of
\* 0.00001 dollar
UsageInfo(used) ==
    [daily_used |-> used,
     daily_limit |-> daily_char_limit,
     remaining |-> IF daily_char_limit - used > 0
                   THEN daily_char_limit - used ELSE 0,
     cost_estimate_today |-> used * 75]

\* the value of self.daily_usage that get_usage_info reports: the counter
\* after _reset_daily_usage_if_needed
\* (ReportedUsageStale: the variant that reads the counter before the reset)
ReportedUsageStale == daily_usage

ReportedUsage == UsageAfterReset

\* get_usage_info: the daily reset, then the report; lastOp.again tells
\* that the step before this call was a get_usage_info call too
GetUsageInfo ==
    /\ daily_usage' = UsageAfterReset
    /\ last_reset_date' = today
    /\ lastOp' = [op |-> "get_usage_info", info |-> UsageInfo(ReportedUsage),
                  again |-> lastOp.op = "get_usage_info"]
    /\ UNCHANGED <<el_available, today, req>>
    /\ UNCHANGED notEL

\* the calendar day changes
DayRollover ==
    /\ today < MaxDay
    /\ today' = today + 1
    /\ lastOp' = [op |-> "day_rollover"]
    /\ UNCHANGED <<el_available, daily_usage, last_reset_date, req>>
    /\ UNCHANGED notEL

\* speak_async called while no other speak_async call is in flight
SpeakAsyncAlone(t) ==
    /\ req = EmptyBag
    /\ SpeakAsync(t)

(***************************************************************************)
(* ElevenLabsTTS._optimize_text, character by character                    *)
(*                                                                         *)
(* A string is a sequence of characters.  The function reads its bound     *)
(* from self.config["max_chars_per_request"]; here it is applied with      *)
(* small values of that entry, so that short strings exceed it.            *)
(***************************************************************************)
\* letters, the blank (whitespace) and the period
Chars == {"a", " ", "."}

\* the strings of at most n characters
StringsUpTo(n) == UNION {[1..k -> Chars] : k \in 0..n}

\* text.split(): the maximal runs of non-whitespace characters; cur is the
\* run being read, acc the runs read so far
RECURSIVE SplitWhitespace(_, _, _)
SplitWhitespace(text, cur, acc) ==
    IF text = <<>>
    THEN IF cur = <<>> THEN acc ELSE Append(acc, cur)
    ELSE IF Head(text) = " "
         THEN SplitWhitespace(Tail(text), <<>>,
                              IF cur = <<>> THEN acc ELSE Append(acc, cur))
         ELSE SplitWhitespace(Tail(text), Append(cur, Head(text)), acc)

\* sep.join(parts)
RECURSIVE Join(_, _)
Join(parts, sep) ==
    IF parts = <<>> THEN <<>>
    ELSE IF Len(parts) = 1 THEN Head(parts)
         ELSE Head(parts) \o sep \o Join(Tail(parts), sep)

\* ' '.join(text.split())
CollapseWhitespace(text) == Join(SplitWhitespace(text, <<>>, <<>>), <<" ">>)

\* text.split('.'): the pieces between the periods, empty pieces included
RECURSIVE SplitPeriod(_, _, _)
SplitPeriod(text, cur, acc) ==
    IF text = <<>> THEN Append(acc, cur)
    ELSE IF Head(text) = "."
         THEN SplitPeriod(Tail(text), <<>>, Append(acc, cur))
         ELSE SplitPeriod(Tail(text), Append(cur, Head(text)), acc)

\* not optimized.strip()
StripIsEmpty(str) == \A i \in 1..Len(str) : str[i] = " "

\* the loop over the sentences: a sentence is appended with its period while
\* the result fits, and the first one that does not fit ends the loop
\* (SentenceLoopSkip: the variant that goes on to the next sentence)
RECURSIVE SentenceLoopSkip(_, _, _)
SentenceLoopSkip(sentences, optimized, max_chars) ==
    IF sentences = <<>> THEN optimized
    ELSE IF Len(optimized \o Head(sentences) \o <<".">>) <= max_chars
         THEN SentenceLoopSkip(Tail(sentences),
                               optimized \o Head(sentences) \o <<".">>,
                               max_chars)
         ELSE SentenceLoopSkip(Tail(sentences), optimized, max_chars)

RECURSIVE SentenceLoop(_, _, _)
SentenceLoop(sentences, optimized, max_chars) ==
    IF sentences = <<>> THEN optimized
    ELSE IF Len(optimized \o Head(sentences) \o <<".">>) <= max_chars
         THEN SentenceLoop(Tail(sentences),
                           optimized \o Head(sentences) \o <<".">>,
                           max_chars)
         ELSE optimized

\* _optimize_text(text) with max_chars = self.config["max_chars_per_request"]
OptimizeText(text, max_chars) ==
    LET collapsed == CollapseWhitespace(text)
    IN  IF Len(collapsed) > max_chars
        THEN LET optimized ==
                    SentenceLoop(SplitPeriod(collapsed, <<>>, <<>>), <<>>,
                                 max_chars)
             IN  IF StripIsEmpty(optimized)
                 THEN SubSeq(collapsed, 1, max_chars - 3) \o <<".", ".", ".">>
                 ELSE optimized
        ELSE collapsed

\* no _optimize_text call has returned yet
NoResult == [done |-> FALSE, text |-> <<>>]

\* the component is not exercised: the entry has its configured value
OptIdle ==
    /\ opt_text = <<>>
    /\ opt_max = max_chars_per_request
    /\ opt_result = NoResult

\* a text and a value of the configuration entry are chosen
OptInit ==
    /\ opt_text \in StringsUpTo(MaxTextLen)
    /\ opt_max \in SmallMaxChars
    /\ opt_result = NoResult

\* the call self._optimize_text(text)
OptimizeCall ==
    /\ ~opt_result.done
    /\ opt_result' = [done |-> TRUE, text |-> OptimizeText(opt_text, opt_max)]
    /\ UNCHANGED <<opt_text, opt_max>>
    /\ UNCHANGED notOpt

(***************************************************************************)
(* AIAssistant (src/ai_assistant.py)                                       *)
(*                                                                         *)
(* Messages are strings, that is sequences of characters, built from the   *)
(* words of a small vocabulary; the tests of the code are applied to their *)
(* characters.                                                             *)
(***************************************************************************)
UpperCase ==
    <<"A", "B", "C", "D", "E", "F", "G", "H", "I", "J", "K", "L", "M",
      "N", "O", "P", "Q", "R", "S", "T", "U", "V", "W", "X", "Y", "Z">>

LowerCase ==
    <<"a", "b", "c", "d", "e", "f", "g", "h", "i", "j", "k", "l", "m",
      "n", "o", "p", "q", "r", "s", "t", "u", "v", "w", "x", "y", "z">>

\* str.lower(), of one character and of a string
LowerChar(ch) ==
    IF \E i \in 1..26 : UpperCase[i] = ch
    THEN LowerCase[CHOOSE i \in 1..26 : UpperCase[i] = ch]
    ELSE ch

Lower(str) == [i \in 1..Len(str) |-> LowerChar(str[i])]

\* sub in str
Contains(str, sub) ==
    \E i \in 0..(Len(str) - Len(sub)) : SubSeq(str, i + 1, i + Len(sub)) = sub

\* str.startswith(prefix)
StartsWith(str, prefix) ==
    Len(prefix) <= Len(str) /\ SubSeq(str, 1, Len(prefix)) = prefix

\* the wake-word tested by should_respond and _get_fallback_response
sri == <<"s", "r", "i">>

\* should_respond: direct_indicators
direct_indicators ==
    << <<"w", "h", "a", "t">>,
       <<"h", "o", "w">>,
       <<"w", "h", "e", "n">>,
       <<"w", "h", "e", "r", "e">>,
       <<"w", "h", "y">>,
       <<"w", "h", "o">>,
       <<"c", "a", "n", " ", "y", "o", "u">>,
       <<"c", "o", "u", "l", "d", " ", "y", "o", "u">>,
       <<"w", "o", "u", "l", "d", " ", "y", "o", "u">>,
       <<"w", "i", "l", "l", " ", "y", "o", "u">>,
       <<"h", "e", "l", "p">>,
       <<"p", "l", "e", "a", "s", "e">>,
       <<"t", "h", "a", "n", "k", "s">>,
       <<"t", "h", "a", "n", "k", " ", "y", "o", "u">> >>


\* should_respond(message)
\* (ShouldRespondCaseSensitive: the variant that tests the message as typed)
ShouldRespondCaseSensitive(message) ==
    \/ Contains(message, sri)
    \/ \E k \in 1..Len(direct_indicators) :
          StartsWith(message, direct_indicators[k])

ShouldRespond(message) ==
    LET message_lower == Lower(message)
    IN  \/ Contains(message_lower, sri)
        \/ \E k \in 1..Len(direct_indicators) :
              StartsWith(message_lower, direct_indicators[k])

\* detect_game_mention: game_indicators
game_indicators ==
    << <<"m", "a", "i", "n">>,
       <<"p", "l", "a", "y", "i", "n", "g">>,
       <<"m", "u", "l", "a", "i">>,
       <<"s", "t", "a", "r", "t">>,
       <<"b", "u", "k", "a">>,
       <<"o", "p", "e", "n">>,
       <<"g", "a", "m", "e">>,
       <<"l", "a", "g", "i", " ", "m", "a", "i", "n">>,
       <<"s", "e", "k", "a", "r", "a", "n", "g", " ", "m", "a", "i", "n">>,
       <<"m", "a", "u", " ", "m", "a", "i", "n">> >>


\* detect_game_mention: game_keywords
game_keywords ==
    << <<"d", "o", "t", "a">>,
       <<"m", "o", "b", "i", "l", "e", " ", "l", "e", "g", "e", "n", "d", "s">>,
       <<"p", "u", "b", "g">>,
       <<"v", "a", "l", "o", "r", "a", "n", "t">>,
       <<"m", "i", "n", "e", "c", "r", "a", "f", "t">>,
       <<"g", "e", "n", "s", "h", "i", "n">>,
       <<"h", "o", "n", "k", "a", "i">>,
       <<"c", "o", "d">>,
       <<"f", "f">>,
       <<"f", "r", "e", "e", " ", "f", "i", "r", "e">>,
       <<"c", "h", "e", "s", "s">>,
       <<"a", "m", "o", "n", "g", " ", "u", "s">>,
       <<"f", "a", "l", "l", " ", "g", "u", "y", "s">>,
       <<"r", "o", "c", "k", "e", "t", " ", "l", "e", "a", "g", "u", "e">>,
       <<"c", "s", "g", "o">>,
       <<"c", "s", "2">> >>


\* an Optional[str]: None, or a string
None == [some |-> FALSE, val |-> <<>>]
Some(str) == [some |-> TRUE, val |-> str]

\* words.index(word): the first position of word in words, 0 for ValueError
IndexOf(words, word) ==
    IF \E i \in 1..Len(words) : words[i] = word
    THEN CHOOSE i \in 1..Len(words) :
             words[i] = word /\ \A j \in 1..(i - 1) : words[j] # word
    ELSE 0

\* words[lo:hi] of Python, for 0 <= lo <= hi
Slice(words, lo, hi) ==
    SubSeq(words, lo + 1, IF hi < Len(words) THEN hi ELSE Len(words))

\* the first of game_keywords contained in the message, from position k on
RECURSIVE FirstKeyword(_, _)
FirstKeyword(message_lower, k) ==
    IF k > Len(game_keywords) THEN None
    ELSE IF Contains(message_lower, game_keywords[k])
         THEN Some(game_keywords[k])
         ELSE FirstKeyword(message_lower, k + 1)

\* the loop of detect_game_mention over game_indicators, from position k
\* on: for an indicator contained in the message, the up to three words
\* that follow the indicator's last word, else the first known keyword
RECURSIVE DetectFrom(_, _)
DetectFrom(message_lower, k) ==
    IF k > Len(game_indicators) THEN None
    ELSE IF Contains(message_lower, game_indicators[k])
         THEN LET words == SplitWhitespace(message_lower, <<>>, <<>>)
                  last == SplitWhitespace(game_indicators[k], <<>>, <<>>)
                  indicator_index ==
                      IndexOf(words, last[Len(last)]) - 1
                  potential_game ==
                      IF indicator_index < 0 THEN <<>>
                      ELSE Join(Slice(words, indicator_index + 1,
                                      indicator_index + 4), <<" ">>)
                  keyword == FirstKeyword(message_lower, 1)
              IN  IF potential_game # <<>> THEN Some(potential_game)
                  ELSE IF keyword.some THEN keyword
                       ELSE DetectFrom(message_lower, k + 1)
         ELSE DetectFrom(message_lower, k + 1)

\* detect_game_mention(message)
DetectGameMention(message) == DetectFrom(Lower(message), 1)


\* _get_fallback_response: the words of its first, second and fourth test
greeting_words ==
    << <<"h", "a", "l", "o">>,
       <<"s", "e", "l", "a", "m", "a", "t">>,
       <<"h", "a", "i">>,
       <<"h", "e", "l", "l", "o">> >>


farewell_words ==
    << <<"b", "y", "e">>,
       <<"u", "d", "a", "h", "a", "n">>,
       <<"s", "e", "l", "e", "s", "a", "i">> >>


game_words ==
    << <<"g", "a", "m", "e">>,
       <<"m", "a", "i", "n">> >>


siap == <<"s", "i", "a", "p">>

\* any(word in message_lower for word in words)
ContainsAny(str, words) == \E k \in 1..Len(words) : Contains(str, words[k])

\* _get_fallback_response(message): the first test that succeeds decides
\* (FallbackResponseGameFirst: the variant that tests the game words before
\* the greetings)
FallbackResponseGameFirst(message) ==
    LET message_lower == Lower(message)
    IN  IF ContainsAny(message_lower, game_words)
        THEN "Wah seru nih! Sri suka nonton Kakak main game!"
        ELSE IF ContainsAny(message_lower, greeting_words)
        THEN "Halo Kak! Sri siap bantuin streaming hari ini!"
        ELSE IF ContainsAny(message_lower, farewell_words)
        THEN "Dadah Kak! Terima kasih buat streaming hari ini! Sampai jumpa lagi ya!"
        ELSE IF Contains(message_lower, siap) /\ Contains(message_lower, sri)
        THEN "Siap banget, Kak! Sri udah excited nih buat bantuin streaming!"
        ELSE "Iya Kak! Sri di sini siap bantuin!"

FallbackResponse(message) ==
    LET message_lower == Lower(message)
    IN  IF ContainsAny(message_lower, greeting_words)
        THEN "Halo Kak! Sri siap bantuin streaming hari ini!"
        ELSE IF ContainsAny(message_lower, farewell_words)
        THEN "Dadah Kak! Terima kasih buat streaming hari ini! Sampai jumpa lagi ya!"
        ELSE IF Contains(message_lower, siap) /\ Contains(message_lower, sri)
        THEN "Siap banget, Kak! Sri udah excited nih buat bantuin streaming!"
        ELSE IF ContainsAny(message_lower, game_words)
        THEN "Wah seru nih! Sri suka nonton Kakak main game!"
        ELSE "Iya Kak! Sri di sini siap bantuin!"

\* the vocabulary of the messages: the wake-word with a capital, a word that
\* contains it, a direct-address word with a capital, a greeting, a
\* farewell, "siap", a game word and a word that no test looks for
Vocabulary ==
    { <<"S", "r", "i">>,
      <<"a", "s", "r", "i">>,
      <<"W", "h", "a", "t">>,
      <<"h", "a", "l", "o">>,
      <<"b", "y", "e">>,
      <<"s", "i", "a", "p">>,
      <<"m", "a", "i", "n">>,
      <<"k", "a", "b", "a", "r">> }

\* the messages of at most n words, separated by one blank
RECURSIVE MessagesUpTo(_)
MessagesUpTo(n) ==
    IF n = 0 THEN {<<>>}
    ELSE LET shorter == MessagesUpTo(n - 1)
         IN  shorter \cup Vocabulary
                \cup {m \o <<" ">> \o w : m \in shorter \ {<<>>}, w \in Vocabulary}

\* len(self.conversation_history) > 10 and conversation_history[-10:]
history_limit == 10

\* the entry process_message and add_system_message append (the timestamp
\* is left out)
Entry(username, message) == [user |-> username, message |-> message]

\* the turn of an answered message: the entry is appended, then the history
\* is cut to its last history_limit entries
AppendAndTrim(history, entry) ==
    LET h == Append(history, entry)
    IN  IF Len(h) > history_limit
        THEN SubSeq(h, Len(h) - history_limit + 1, Len(h))
        ELSE h

\* the turn of a message that is not answered: the entry is appended
\* (AppendNothing: the variant that drops the turn)
AppendNothing(history, entry) == history

AppendOnly(history, entry) == Append(history, entry)

\* the strings process_message can return besides a fallback response
NoReply == "None"
NotConfiguredReply ==
    "Kak, aku belum dikonfigurasi dengan benar. Tolong cek API key-ku ya."
GeneratedReply == "<response.choices[0].message.content.strip()>"
EmptyReply == ""

\* outcomes of self.client.chat.completions.create: a response with
\* content, a response whose content is only whitespace, a response without
\* choices or content, an exception
BackendOutcomes == {"content", "blank", "empty", "raises"}

\* what process_message returns for an answered message and an outcome of
\* the backend call
ReplyFor(message, backend) ==
    CASE backend = "content" -> GeneratedReply
      [] backend = "blank" -> EmptyReply
      [] OTHER -> FallbackResponse(message)

NoCall == [op |-> "none"]

\* AIAssistant.__init__: without OPENAI_API_KEY it returns before the
\* client, the model and the history are set
AIInit ==
    /\ api_key \in BOOLEAN
    /\ conversation_history = <<>>
    /\ current_game = None
    /\ ai_last = NoCall

\* the AIAssistant of a component that is not exercised
AIIdle == AIInit /\ api_key /\ word_input = <<>>

\* process_message(message, username), which runs without suspending: the
\* configuration test, the game context, should_respond, the history, one
\* call of the backend and the reply; calls counts the calls of
\* chat.completions.create
ProcessMessageBody(message, username, backend) ==
    IF ~api_key
    THEN /\ ai_last' = [op |-> "process_message", message |-> message,
                        user |-> username, reply |-> NotConfiguredReply,
                        calls |-> 0, backend |-> "none"]
         /\ UNCHANGED <<conversation_history, current_game>>
    ELSE /\ LET detected_game == DetectGameMention(message)
            IN  current_game' = IF detected_game.some THEN detected_game
                                ELSE current_game
         /\ IF ~ShouldRespond(message)
            THEN /\ conversation_history' =
                        AppendOnly(conversation_history,
                                   Entry(username, message))
                 /\ ai_last' = [op |-> "process_message",
                                message |-> message, user |-> username,
                                reply |-> NoReply, calls |-> 0,
                                backend |-> "none"]
            ELSE /\ conversation_history' =
                        AppendAndTrim(conversation_history,
                                      Entry(username, message))
                 /\ ai_last' = [op |-> "process_message",
                                message |-> message, user |-> username,
                                reply |-> ReplyFor(message, backend),
                                calls |-> 1, backend |-> backend]

\* the backend outcomes to draw for a message: the backend is reached only
\* by a configured assistant and for a message that is answered
OutcomesFor(message) ==
    IF api_key /\ ShouldRespond(message) THEN BackendOutcomes ELSE {"none"}

\* process_message called for a turn of the text channel (main.py,
\* on_message)
ProcessMessage(turn, backend) ==
    /\ Len(conversation_history) < MaxHistoryLen
    /\ ProcessMessageBody(turn.message, turn.user, backend)
    /\ UNCHANGED <<api_key, word_input>>
    /\ UNCHANGED notAI

\* add_system_message(message): appends a System entry; an assistant
\* without API key has no conversation_history attribute and raises
AddSystemMessage(message) ==
    /\ Len(conversation_history) < MaxHistoryLen
    /\ Cardinality({i \in DOMAIN conversation_history :
                       conversation_history[i].user = "System"})
          < MaxSystemNotes
    /\ IF api_key
       THEN /\ conversation_history' =
                   Append(conversation_history, Entry("System", message))
            /\ ai_last' = [op |-> "add_system_message", message |-> message,
                           raised |-> FALSE]
       ELSE /\ ai_last' = [op |-> "add_system_message", message |-> message,
                           raised |-> TRUE]
            /\ UNCHANGED conversation_history
    /\ UNCHANGED <<api_key, current_game, word_input>>
    /\ UNCHANGED notAI

\* should_respond(word_input)
ShouldRespondCall ==
    /\ ai_last' = [op |-> "should_respond", message |-> word_input,
                   result |-> ShouldRespond(word_input)]
    /\ UNCHANGED <<api_key, conversation_history, current_game, word_input>>
    /\ UNCHANGED notAI

\* _get_fallback_response(word_input)
GetFallbackResponseCall ==
    /\ ai_last' = [op |-> "_get_fallback_response", message |-> word_input,
                   result |-> FallbackResponse(word_input)]
    /\ UNCHANGED <<api_key, conversation_history, current_game, word_input>>
    /\ UNCHANGED notAI

\* process_message called for word_input, the message of the main user
ProcessWordInput(backend) ==
    /\ Len(conversation_history) < MaxWordTurns
    /\ ProcessMessage([user |-> "Kak", message |-> word_input], backend)

\* the turns given to process_message: the main user calls Sri, another
\* user says something that is not addressed to Sri and mentions a game
TurnAddressed == [user |-> "Kak", message |-> <<"S", "r", "i">>]
TurnIgnored ==
    [user |-> "Budi", message |-> <<"m", "a", "i", "n", " ", "f", "f">>]
Turns == {TurnAddressed, TurnIgnored}

\* the message given to add_system_message
SystemNote == <<"l", "i", "v", "e">>

(***************************************************************************)
(* LocalTTS                                                                *)
(***************************************************************************)
\* LocalTTS.__init__: self.available tells whether the PowerShell test ran
LTInit ==
    /\ lt_available \in BOOLEAN
    /\ is_speaking = FALSE
    /\ utt = [i \in Utterances |-> "none"]
    /\ speak_result = "none"

\* tasks that have been created by speak()
Created == {i \in Utterances : utt[i] # "none"}

\* speak(text): refused when unavailable, for a blank text and while
\* is_speaking; else a _speak_async task is created and True returned
LocalSpeakBody(blank) ==
    /\ IF ~lt_available \/ blank \/ is_speaking
       THEN /\ speak_result' = "False"
            /\ UNCHANGED utt
       ELSE /\ Cardinality(Created) < MaxUtterances
            /\ utt' = [utt EXCEPT ![Cardinality(Created) + 1] = "created"]
            /\ speak_result' = "True"
    /\ UNCHANGED <<lt_available, is_speaking>>

\* speak(text) called on its own
LocalSpeak(blank) ==
    /\ LocalSpeakBody(blank)
    /\ UNCHANGED notLT

\* the event loop starts the task: _speak_async sets is_speaking and awaits
\* create_subprocess_exec
TaskStart(i) ==
    /\ utt[i] = "created"
    /\ is_speaking' = TRUE
    /\ utt' = [utt EXCEPT ![i] = "spawning"]
    /\ UNCHANGED <<lt_available, speak_result>>
    /\ UNCHANGED notLT

\* the PowerShell process is running: the utterance is being played while
\* the task awaits process.wait()
TaskSpawned(i) ==
    /\ utt[i] = "spawning"
    /\ utt' = [utt EXCEPT ![i] = "playing"]
    /\ UNCHANGED <<lt_available, is_speaking, speak_result>>
    /\ UNCHANGED notLT

TaskSpawnFailsFlagKept(i) ==
    /\ utt[i] = "spawning"
    /\ utt' = [utt EXCEPT ![i] = "done"]
    /\ UNCHANGED <<lt_available, is_speaking, speak_result>>
    /\ UNCHANGED notLT

\* create_subprocess_exec raises: except, then finally clears is_speaking
TaskSpawnFails(i) ==
    /\ utt[i] = "spawning"
    /\ utt' = [utt EXCEPT ![i] = "done"]
    /\ is_speaking' = FALSE
    /\ UNCHANGED <<lt_available, speak_result>>
    /\ UNCHANGED notLT

\* the PowerShell process exits: the playback of the utterance is over
ProcessExit(i) ==
    /\ utt[i] = "playing"
    /\ utt' = [utt EXCEPT ![i] = "exited"]
    /\ UNCHANGED <<lt_available, is_speaking, speak_result>>
    /\ UNCHANGED notLT

\* the task resumes after process.wait(): finally clears is_speaking
TaskFinish(i) ==
    /\ utt[i] = "exited"
    /\ utt' = [utt EXCEPT ![i] = "done"]
    /\ is_speaking' = FALSE
    /\ UNCHANGED <<lt_available, speak_result>>
    /\ UNCHANGED notLT

(***************************************************************************)
(* Transcription: PushToTalkListener._process_recorded_audio and the       *)
(* listening cycle of LocalVoiceListener (src/local_voice_listener.py)     *)
(***************************************************************************)
\* str.strip(): the string without its leading and trailing blanks
RECURSIVE Strip(_)
Strip(str) ==
    IF str # <<>> /\ Head(str) = " " THEN Strip(Tail(str))
    ELSE IF str # <<>> /\ str[Len(str)] = " "
         THEN Strip(SubSeq(str, 1, Len(str) - 1))
         ELSE str

\* str.replace(old, new): every occurrence of old, from left to right
RECURSIVE Replace(_, _, _)
Replace(str, old, new) ==
    IF Len(str) < Len(old) THEN str
    ELSE IF SubSeq(str, 1, Len(old)) = old
         THEN new \o Replace(SubSeq(str, Len(old) + 1, Len(str)), old, new)
         ELSE <<Head(str)>> \o Replace(Tail(str), old, new)

\* PushToTalkListener._enhance_speech_text: the keys of replacements, each
\* replaced by 'sri'
ptt_replacements ==
    << <<"s", "r", "y">>,
       <<"s", "h", "r", "i">>,
       <<"s", "e", "r", "i">>,
       <<"c", "r", "i">>,
       <<"t", "r", "e", "e">>,
       <<"f", "r", "e", "e">> >>


\* the loop over replacements, from position k on
RECURSIVE ReplaceFrom(_, _)
ReplaceFrom(enhanced, k) ==
    IF k > Len(ptt_replacements) THEN enhanced
    ELSE ReplaceFrom(Replace(enhanced, ptt_replacements[k], sri), k + 1)

\* PushToTalkListener._enhance_speech_text(text)
PTTEnhanceSpeechText(text) == ReplaceFrom(Strip(Lower(text)), 1)

\* LocalVoiceListener._enhance_speech_text: sri_variants.  The strings here
\* hold letters and blanks only, so a pattern \\bword\\b matches the words
\* equal to word.  The variants before the two with a lookahead, the words
\* that may follow 'sore' and 'the' in the lookahead, the variants after
sri_words_first ==
    { <<"s", "e", "r", "i">>,
       <<"s", "h", "r", "i">>,
       <<"s", "r", "e", "e">>,
       <<"s", "r", "i">>,
       <<"t", "r", "e", "e">>,
       <<"s", "e", "a">>,
       <<"s", "e", "e">>,
       <<"f", "r", "e", "e">> }


lookahead_starts ==
    { <<"s", "e", "l", "a", "m", "a", "t">>,
       <<"h", "a", "l", "o">>,
       <<"h", "a", "i">>,
       <<"a", "p", "a">> }


sri_words_last ==
    { <<"s", "e", "r">>,
       <<"s", "i", "r">>,
       <<"s", "r", "i">> }


selamat == <<"s", "e", "l", "a", "m", "a", "t">>

\* re.sub(r'\\bword\\b', 'sri', ...) for the words of a set
SubWords(words, set) ==
    [i \in 1..Len(words) |-> IF words[i] \in set THEN sri ELSE words[i]]

\* re.sub(r'\\bword\\b(?=\\s*(selamat|halo|hai|apa))', 'sri', ...)
SubLookahead(words, word) ==
    [i \in 1..Len(words) |->
        IF /\ words[i] = word
           /\ i < Len(words)
           /\ \E p \in lookahead_starts : StartsWith(words[i + 1], p)
        THEN sri ELSE words[i]]

\* greeting_patterns: the words of ^(halo|hai|hello), of
\* ^(selamat\\s+(malam|pagi|siang|sore))$, and explicit_greetings
greeting_starts ==
    { <<"h", "a", "l", "o">>,
       <<"h", "a", "i">>,
       <<"h", "e", "l", "l", "o">> }


day_times ==
    { <<"m", "a", "l", "a", "m">>,
       <<"p", "a", "g", "i">>,
       <<"s", "i", "a", "n", "g">>,
       <<"s", "o", "r", "e">> }


explicit_greetings ==
    { <<"h", "a", "l", "o">>,
       <<"h", "a", "i">>,
       <<"h", "e", "l", "l", "o">>,
       <<"s", "e", "l", "a", "m", "a", "t", " ", "m", "a", "l", "a", "m">>,
       <<"s", "e", "l", "a", "m", "a", "t", " ", "p", "a", "g", "i">>,
       <<"s", "e", "l", "a", "m", "a", "t", " ", "s", "i", "a", "n", "g">>,
       <<"s", "e", "l", "a", "m", "a", "t", " ", "s", "o", "r", "e">>,
       <<"h", "i">>,
       <<"h", "e", "y">> }


\* the first greeting pattern, ^(halo|hai|hello)\\s+\\w{1,3}\\s*(selamat),
\* replaced by '\\1 sri \\2': one to three letters between the greeting and
\* 'selamat', as a word of their own or at the start of the word that goes
\* on with 'selamat'
GreetingFix(words) ==
    IF Len(words) >= 2 /\ words[1] \in greeting_starts
    THEN IF /\ Len(words) >= 3
            /\ Len(words[2]) \in 1..3
            /\ StartsWith(words[3], selamat)
         THEN <<words[1], sri>> \o SubSeq(words, 3, Len(words))
         ELSE IF \E k \in 1..3 :
                    StartsWith(SubSeq(words[2], k + 1, Len(words[2])), selamat)
              THEN LET k == CHOOSE n \in 1..3 :
                            /\ StartsWith(SubSeq(words[2], n + 1,
                                                 Len(words[2])), selamat)
                            /\ \A m \in (n + 1)..3 :
                                  ~StartsWith(SubSeq(words[2], m + 1,
                                                     Len(words[2])), selamat)
                   IN  <<words[1], sri, SubSeq(words[2], k + 1, Len(words[2]))>>
                          \o SubSeq(words, 3, Len(words))
              ELSE words
    ELSE words

\* the second greeting pattern: a standalone greeting of the time of day
DayGreetingFix(words) ==
    IF Len(words) = 2 /\ words[1] = selamat /\ words[2] \in day_times
    THEN Append(words, sri)
    ELSE words

\* the special case: 'sri' is added to a standalone explicit greeting
StandaloneGreetingFix(words) ==
    IF /\ Len(words) <= 2
       /\ Join(words, <<" ">>) \in explicit_greetings
       /\ ~Contains(Join(words, <<" ">>), sri)
    THEN Append(words, sri)
    ELSE words

\* LocalVoiceListener._enhance_speech_text(text), for a text whose words are
\* separated by single blanks
LVLEnhanceSpeechText(text) ==
    IF text = <<>> THEN text
    ELSE LET w0 == SplitWhitespace(Lower(text), <<>>, <<>>)
             w1 == SubWords(w0, sri_words_first)
             w2 == SubLookahead(w1, <<"s", "o", "r", "e">>)
             w3 == SubLookahead(w2, <<"t", "h", "e">>)
             w4 == SubWords(w3, sri_words_last)
             w5 == DayGreetingFix(GreetingFix(w4))
         IN  Join(StandaloneGreetingFix(w5), <<" ">>)

\* what recognize_google does for one language: it returns a text, raises
\* UnknownValueError or raises RequestError
Recognized(text) == [kind |-> "text", text |-> text]
UnknownValue == [kind |-> "unknown", text |-> <<>>]
RequestFailed == [kind |-> "request_error", text |-> <<>>]

\* text.strip() is empty
IsBlank(text) == Strip(text) = <<>>

\* how a recognize_google call ended: with a text that is not blank, with a
\* blank text, with UnknownValueError or with RequestError
CallKind(outcome) ==
    IF outcome.kind = "text"
    THEN IF IsBlank(outcome.text) THEN "blank" ELSE "text"
    ELSE outcome.kind

\* _process_recorded_audio(audio_data): audio_size is "none" for no audio,
\* "small" for under 1000 bytes, "unreadable" when get_raw_data raises and
\* "ok" otherwise; id and en are what recognize_google does for id-ID and
\* for en-US.  The result: the recognize_google calls made and the argument
\* of callback_func, None when it is not called
RecordedAudioResult(audio_size, id, en) ==
    IF audio_size \in {"none", "small"}
    THEN [calls |-> <<>>, callback |-> None]
    ELSE IF id.kind = "text"
    THEN [calls |-> <<CallKind(id)>>,
          callback |-> IF IsBlank(id.text) THEN None
                       ELSE Some(PTTEnhanceSpeechText(Strip(id.text)))]
    ELSE IF id.kind = "request_error"
    THEN [calls |-> <<CallKind(id)>>, callback |-> None]
    ELSE IF en.kind = "text"
    THEN [calls |-> <<CallKind(id), CallKind(en)>>,
          callback |-> IF IsBlank(en.text) THEN None
                       ELSE Some(PTTEnhanceSpeechText(Strip(en.text)))]
    ELSE [calls |-> <<CallKind(id), CallKind(en)>>, callback |-> None]

\* the loop of _listen_loop over languages, from position k on: text is the
\* last text a language returned, None before; a text that is not blank
\* ends the loop, a blank text and an exception go on to the next language
RECURSIVE RecognizeLanguages(_, _, _, _)
RecognizeLanguages(outcomes, k, text, calls) ==
    IF k > Len(outcomes) THEN [calls |-> calls, text |-> text]
    ELSE LET made == Append(calls, CallKind(outcomes[k]))
         IN  IF outcomes[k].kind = "text"
             THEN IF ~IsBlank(outcomes[k].text)
                  THEN [calls |-> made, text |-> Some(outcomes[k].text)]
                  ELSE RecognizeLanguages(outcomes, k + 1,
                                          Some(outcomes[k].text), made)
             ELSE RecognizeLanguages(outcomes, k + 1, text, made)

\* one cycle of _listen_loop after recognizer.listen returned audio: the
\* recognize_google calls made and the enhanced text to enqueue, None when
\* no language gave a text that is not blank
\* (ListenCycleResultUnchecked: the variant without the test of the text
\* after the loop)
ListenCycleResultUnchecked(outcomes) ==
    LET r == RecognizeLanguages(outcomes, 1, None, <<>>)
    IN  [calls |-> r.calls,
         enqueue |-> IF r.text.some
                     THEN Some(LVLEnhanceSpeechText(Strip(r.text.val)))
                     ELSE None]

ListenCycleResult(outcomes) ==
    LET r == RecognizeLanguages(outcomes, 1, None, <<>>)
    IN  [calls |-> r.calls,
         enqueue |-> IF r.text.some /\ ~IsBlank(r.text.val)
                     THEN Some(LVLEnhanceSpeechText(Strip(r.text.val)))
                     ELSE None]

(***************************************************************************)
(* The voice path: LocalVoiceListener, the transcripts of                  *)
(* PushToTalkListener and VoiceHandler._process_voice_input                *)
(* (src/voice_handler.py).  callback_func of the push-to-talk listener is  *)
(* the voice handler's _process_voice_input, as the comment at its call    *)
(* says.                                                                   *)
(***************************************************************************)
\* the texts recognize_google returns
HeardTexts ==
    { <<>>,
      <<" ">>,
      <<"m", "a", "i", "n", " ", "f", "f">>,
      <<"h", "a", "l", "o">> }

\* what one recognize_google call can do
RecognitionOutcomes ==
    {Recognized(t) : t \in HeardTexts} \cup {UnknownValue, RequestFailed}

\* languages = ['id-ID', 'id', 'en-US'] of _listen_loop
languages == <<"id-ID", "id", "en-US">>

\* the outcomes of one listening cycle, one per language
CycleOutcomes == [1..Len(languages) -> RecognitionOutcomes]

AudioSizes == {"none", "small", "unreadable", "ok"}

\* the 3 seconds of the duplicate test of _listen_loop and
\* voice_input_timeout of VoiceHandler, in half seconds
lvl_duplicate_timeout == 6
voice_input_timeout == 6

\* os.getenv('MAIN_USER', 'User') without MAIN_USER
voice_username == "User"

\* how the last recognize_google call of a transcription ended, "none"
\* when there was no call
LastCall(calls) == IF calls = <<>> THEN "none" ELSE calls[Len(calls)]

NothingHeard == [source |-> "none", last |-> "none", delivered |-> None]
NoVoiceInput ==
    [pc |-> "idle", source |-> "none", text |-> <<>>, duplicate |-> FALSE,
     response |-> NoReply, send |-> "none", spoken |-> FALSE]

\* what _process_recorded_audio can do, over every audio and every pair of
\* recognition outcomes
RecordedAudioResults ==
    {RecordedAudioResult(audio_size, id, en) :
        audio_size \in AudioSizes, id \in RecognitionOutcomes,
        en \in RecognitionOutcomes}

\* _process_recorded_audio(largest_chunk) at the end of a recording thread:
\* proc counts the calls, recog those that reached recognize_google, cb
\* those that called callback_func
ProcessRecordedAudio(s) ==
    /\ thr[s].pc = "process"
    /\ \E r \in RecordedAudioResults :
              sess' = [sess EXCEPT ![s] =
                          [@ EXCEPT !.proc = @ + 1,
                                    !.recog = IF r.calls # <<>>
                                              THEN @ + 1 ELSE @,
                                    !.cb = IF r.callback.some
                                           THEN @ + 1 ELSE @]]
    /\ thr' = [thr EXCEPT ![s].pc = "finally"]
    /\ mic_stream_open' = FALSE
    /\ UNCHANGED <<microphone, is_listening_active, is_recording,
                   recording_start_time, kbd, nSessions, clock, ticks,
                   notifications>>
    /\ UNCHANGED notPTT

ThreadIds == 1..MaxThreads

\* listen_thread.is_alive()
Alive(threads, t) == t # 0 /\ threads[t] \in {"loop", "listen"}

\* listen_thread.join(timeout) after is_listening was set to False: a
\* thread at the test of its loop ends, a thread blocked in
\* recognizer.listen or in recognition outlasts the timeout
Joined(threads, t) ==
    IF t # 0 /\ threads[t] = "loop"
    THEN [threads EXCEPT ![t] = "done"]
    ELSE threads

\* the place of a new Thread object
FreeSlot(threads) ==
    CHOOSE t \in ThreadIds :
        /\ ~Alive(threads, t)
        /\ \A u \in ThreadIds : u < t => Alive(threads, u)

\* the body shared by start_listening and resume_listening: without a
\* microphone nothing; a live thread is told to stop and joined for three
\* seconds; then, unless is_listening is set, is_listening is set and a new
\* thread is started
StartThreadBody ==
    IF ~lvl_microphone
    THEN UNCHANGED <<lvl_is_listening, lvl_threads, listen_thread>>
    ELSE LET waited == Alive(lvl_threads, listen_thread)
             threads == IF waited
                        THEN Joined(lvl_threads, listen_thread)
                        ELSE lvl_threads
             listening == IF waited THEN FALSE ELSE lvl_is_listening
         IN  IF listening
             THEN UNCHANGED <<lvl_is_listening, lvl_threads, listen_thread>>
             ELSE /\ \E t \in ThreadIds : ~Alive(threads, t)
                  /\ lvl_is_listening' = TRUE
                  /\ lvl_threads' =
                        [threads EXCEPT ![FreeSlot(threads)] = "loop"]
                  /\ listen_thread' = FreeSlot(threads)

\* pause_listening: clears is_listening and joins the thread for three
\* seconds
PauseListeningBody ==
    /\ lvl_is_listening' = FALSE
    /\ lvl_threads' = Joined(lvl_threads, listen_thread)
    /\ UNCHANGED listen_thread

\* LocalVoiceListener.stop_listening: clears is_listening and joins the
\* thread for one second
LVLStopListeningBody ==
    /\ lvl_is_listening' = FALSE
    /\ lvl_threads' = Joined(lvl_threads, listen_thread)
    /\ UNCHANGED listen_thread

\* LocalVoiceListener.__init__ and VoiceHandler.__init__
VoiceInit ==
    /\ lvl_microphone \in BOOLEAN
    /\ lvl_is_listening = FALSE
    /\ voice_queue = <<>>
    /\ last_voice_input = None
    /\ last_input_time = 0
    /\ callback_args = <<>>
    /\ heard = NothingHeard
    /\ nHeard = 0
    /\ recent_voice_inputs = {}
    /\ recent_voice_responses = {}
    /\ last_voice_interaction_time = 0
    /\ sri_is_speaking = FALSE
    /\ resume_tasks = 0
    /\ vh = NoVoiceInput
    /\ lvl_threads = [t \in ThreadIds |-> "none"]
    /\ listen_thread = 0
    /\ voice_client = "none"
    /\ orch_last = "none"
    /\ tts_queue = <<>>
    /\ tts_worker = [pc |-> "get", synthesized |-> 0]
    /\ user_histories = [u \in JunUsers |-> <<>>]
    /\ jun_last = [op |-> "none"]

\* the voice path of a component that is not exercised
VoiceIdle == VoiceInit /\ lvl_microphone

\* VoiceHandler.start_listening with LocalVoiceListener.start_listening
LVLStartListening ==
    /\ StartThreadBody
    /\ orch_last' = "start"
    /\ UNCHANGED voice_client
    /\ UNCHANGED <<lvl_microphone, voice_queue, last_voice_input,
                   last_input_time, callback_args, heard, nHeard,
                   recent_voice_inputs, recent_voice_responses,
                   last_voice_interaction_time, sri_is_speaking,
                   resume_tasks, vh>>
    /\ UNCHANGED notListener

\* the duplicate test of _listen_loop under duplicate_lock
IsNewInput(enhanced_text) ==
    \/ Some(enhanced_text) # last_voice_input
    \/ clock - last_input_time > lvl_duplicate_timeout

\* one cycle of _listen_loop in which recognizer.listen returned audio:
\* recognition over the languages, enhancement, the duplicate test and
\* voice_queue.put
\* (ListenCycleBodyUnqueued: the variant that hands the text on without
\* putting it in voice_queue)
ListenCycleBodyUnqueued(outcomes) ==
    /\ nHeard < MaxVoiceInputs
    /\ nHeard' = nHeard + 1
    /\ LET r == ListenCycleResult(outcomes)
       IN  IF r.enqueue.some /\ IsNewInput(r.enqueue.val)
           THEN /\ last_voice_input' = r.enqueue
                /\ last_input_time' = clock
                /\ heard' = [source |-> "lvl", last |-> LastCall(r.calls),
                             delivered |-> r.enqueue]
                /\ UNCHANGED voice_queue
           ELSE /\ heard' = [source |-> "lvl", last |-> LastCall(r.calls),
                             delivered |-> None]
                /\ UNCHANGED <<voice_queue, last_voice_input,
                               last_input_time>>

ListenCycleBody(outcomes) ==
    /\ nHeard < MaxVoiceInputs
    /\ nHeard' = nHeard + 1
    /\ LET r == ListenCycleResult(outcomes)
       IN  IF r.enqueue.some /\ IsNewInput(r.enqueue.val)
           THEN /\ voice_queue' = Append(voice_queue, r.enqueue.val)
                /\ last_voice_input' = r.enqueue
                /\ last_input_time' = clock
                /\ heard' = [source |-> "lvl", last |-> LastCall(r.calls),
                             delivered |-> r.enqueue]
           ELSE /\ heard' = [source |-> "lvl", last |-> LastCall(r.calls),
                             delivered |-> None]
                /\ UNCHANGED <<voice_queue, last_voice_input,
                               last_input_time>>

\* one whole pass of the loop of a thread that found is_listening set
LVLListenCycle(outcomes) ==
    /\ lvl_is_listening
    /\ \E t \in ThreadIds : lvl_threads[t] = "loop"
    /\ ListenCycleBody(outcomes)
    /\ UNCHANGED <<lvl_microphone, lvl_is_listening, callback_args,
                   recent_voice_inputs, recent_voice_responses,
                   last_voice_interaction_time, sri_is_speaking,
                   resume_tasks, vh>>
    /\ UNCHANGED notVoice

\* _listen_loop, `while self.is_listening`: the thread goes on to
\* recognizer.listen or ends
ThreadLoopTest(t) ==
    /\ lvl_threads[t] = "loop"
    /\ lvl_threads' = [lvl_threads EXCEPT ![t] =
                          IF lvl_is_listening THEN "listen" ELSE "done"]
    /\ UNCHANGED <<listen_thread, voice_client, orch_last>>
    /\ UNCHANGED voiceVars
    /\ UNCHANGED notListener

\* _listen_loop, recognizer.listen raises WaitTimeoutError: continue
ListenWaitTimeout(t) ==
    /\ lvl_threads[t] = "listen"
    /\ lvl_threads' = [lvl_threads EXCEPT ![t] = "loop"]
    /\ UNCHANGED <<listen_thread, voice_client, orch_last>>
    /\ UNCHANGED voiceVars
    /\ UNCHANGED notListener

\* _listen_loop, an OSError or RuntimeError in the cycle: is_listening is
\* cleared and the loop is left
ListenCriticalError(t) ==
    /\ lvl_threads[t] = "listen"
    /\ lvl_threads' = [lvl_threads EXCEPT ![t] = "done"]
    /\ lvl_is_listening' = FALSE
    /\ UNCHANGED <<listen_thread, voice_client, orch_last>>
    /\ UNCHANGED <<lvl_microphone, voice_queue, last_voice_input,
                   last_input_time, callback_args, heard, nHeard,
                   recent_voice_inputs, recent_voice_responses,
                   last_voice_interaction_time, sri_is_speaking,
                   resume_tasks, vh>>
    /\ UNCHANGED notListener

\* the same recognition outcome for every language
UniformOutcomes ==
    {[k \in 1..Len(languages) |-> o] : o \in RecognitionOutcomes}

\* _listen_loop, recognizer.listen returned audio: the rest of the cycle,
\* back to the test of the loop
ListenAudio(t, outcomes) ==
    /\ lvl_threads[t] = "listen"
    /\ lvl_threads' = [lvl_threads EXCEPT ![t] = "loop"]
    /\ ListenCycleBody(outcomes)
    /\ UNCHANGED <<listen_thread, voice_client, orch_last>>
    /\ UNCHANGED <<lvl_microphone, lvl_is_listening, callback_args,
                   recent_voice_inputs, recent_voice_responses,
                   last_voice_interaction_time, sri_is_speaking,
                   resume_tasks, vh>>
    /\ UNCHANGED notListener

\* _process_recorded_audio for the audio of a push-to-talk capture, with
\* the call of callback_func
DeliverRecordedAudio(audio_size, id, en) ==
    /\ nHeard < MaxVoiceInputs
    /\ nHeard' = nHeard + 1
    /\ LET r == RecordedAudioResult(audio_size, id, en)
       IN  /\ heard' = [source |-> "ptt", last |-> LastCall(r.calls),
                        delivered |-> r.callback]
           /\ callback_args' = IF r.callback.some
                               THEN Append(callback_args, r.callback.val)
                               ELSE callback_args
    /\ UNCHANGED <<lvl_microphone, lvl_is_listening, voice_queue,
                   last_voice_input, last_input_time, recent_voice_inputs,
                   recent_voice_responses, last_voice_interaction_time,
                   sri_is_speaking, resume_tasks, vh>>
    /\ UNCHANGED notVoice

\* `if response:` a reply that is neither None nor the empty string
IsReply(response) == response \notin {NoReply, EmptyReply}

RecentInputsShort ==
    {r \in recent_voice_inputs : clock - r.timestamp < 2}

\* the entries of recent_voice_inputs that are kept
RecentInputs ==
    {r \in recent_voice_inputs : clock - r.timestamp < voice_input_timeout}

\* _process_voice_input(text) up to `await target_channel.send`: the
\* duplicate test, process_message for the user of the voice path, the
\* bookkeeping of a reply
ProcessVoiceInputBody(source, text, backend) ==
    IF \E r \in RecentInputs : Strip(Lower(text)) = Strip(Lower(r.msg))
    THEN /\ recent_voice_inputs' = RecentInputs
         /\ vh' = [NoVoiceInput EXCEPT !.source = source, !.text = text,
                                       !.duplicate = TRUE]
         /\ UNCHANGED <<recent_voice_responses, last_voice_interaction_time>>
         /\ UNCHANGED aiVars
    ELSE /\ recent_voice_inputs' =
                RecentInputs \cup {[msg |-> text, timestamp |-> clock]}
         /\ ProcessMessageBody(text, voice_username, backend)
         /\ UNCHANGED <<api_key, word_input>>
         /\ LET response == ai_last'.reply
            IN  IF IsReply(response)
                THEN /\ last_voice_interaction_time' = clock
                     /\ recent_voice_responses' =
                            recent_voice_responses
                               \cup {[msg |-> text, timestamp |-> clock]}
                     /\ vh' = [NoVoiceInput EXCEPT
                                  !.pc = "send", !.source = source,
                                  !.text = text, !.response = response]
                ELSE /\ vh' = [NoVoiceInput EXCEPT
                                  !.source = source, !.text = text,
                                  !.response = response]
                     /\ UNCHANGED <<recent_voice_responses,
                                    last_voice_interaction_time>>

\* the backend outcomes to draw for a voice input
VoiceOutcomesFor(text) ==
    IF \E r \in RecentInputs : Strip(Lower(text)) = Strip(Lower(r.msg))
    THEN {"none"}
    ELSE OutcomesFor(text)

\* one round of _voice_queue_processor that finds an input: nothing is
\* taken while sri_is_speaking; get_voice_input, and _process_voice_input
\* for an input that is not the empty string
VoiceQueueProcessor ==
    /\ vh.pc = "idle"
    /\ ~sri_is_speaking
    /\ voice_queue # <<>>
    /\ voice_queue' = Tail(voice_queue)
    /\ IF Head(voice_queue) # <<>>
       THEN \E backend \in VoiceOutcomesFor(Head(voice_queue)) :
               ProcessVoiceInputBody("lvl", Head(voice_queue), backend)
       ELSE UNCHANGED <<recent_voice_inputs, recent_voice_responses,
                        last_voice_interaction_time, vh, aiVars>>
    /\ UNCHANGED <<lvl_microphone, lvl_is_listening, last_voice_input,
                   last_input_time, callback_args, heard, nHeard,
                   sri_is_speaking, resume_tasks>>
    /\ UNCHANGED notVoiceAI

\* callback_func of the push-to-talk listener is not constructed in the
\* sources at hand; as the scheduling model describes it, it schedules the
\* transcript handler on the event loop: _process_voice_input runs there
\* for a transcript given to callback_func
CallbackProcessor ==
    /\ vh.pc = "idle"
    /\ callback_args # <<>>
    /\ callback_args' = Tail(callback_args)
    /\ \E backend \in VoiceOutcomesFor(Head(callback_args)) :
          ProcessVoiceInputBody("ptt", Head(callback_args), backend)
    /\ UNCHANGED <<lvl_microphone, lvl_is_listening, voice_queue,
                   last_voice_input, last_input_time, heard, nHeard,
                   sri_is_speaking, resume_tasks>>
    /\ UNCHANGED notVoiceAI

\* _process_voice_input, the text reply: it is sent to a channel, there is
\* no channel, or the send raises, which is logged
SendResults == {"sent", "no_channel", "failed"}

\* (VoiceSendTextAborting: the variant in which a failed send ends the
\* handling of the reply)
VoiceSendTextAborting(result) ==
    /\ vh.pc = "send"
    /\ vh' = [vh EXCEPT !.pc = IF result = "failed" THEN "idle" ELSE "speak",
                        !.send = result]
    /\ UNCHANGED <<lvl_microphone, lvl_is_listening, voice_queue,
                   last_voice_input, last_input_time, callback_args, heard,
                   nHeard, recent_voice_inputs, recent_voice_responses,
                   last_voice_interaction_time, sri_is_speaking,
                   resume_tasks>>
    /\ UNCHANGED notVoice

VoiceSendText(result) ==
    /\ vh.pc = "send"
    /\ vh' = [vh EXCEPT !.pc = "speak", !.send = result]
    /\ UNCHANGED <<lvl_microphone, lvl_is_listening, voice_queue,
                   last_voice_input, last_input_time, callback_args, heard,
                   nHeard, recent_voice_inputs, recent_voice_responses,
                   last_voice_interaction_time, sri_is_speaking,
                   resume_tasks>>
    /\ UNCHANGED notVoice

\* _process_voice_input, the spoken reply: with an available LocalTTS the
\* listener is paused, local_tts.speak is called and the task that resumes
\* listening is created
VoiceSpeakReply ==
    /\ vh.pc = "speak"
    /\ IF lt_available
       THEN /\ sri_is_speaking' = TRUE
            /\ PauseListeningBody
            /\ LocalSpeakBody(FALSE)
            /\ resume_tasks' = resume_tasks + 1
            /\ vh' = [vh EXCEPT !.pc = "idle", !.spoken = TRUE]
       ELSE /\ vh' = [vh EXCEPT !.pc = "idle"]
            /\ UNCHANGED <<sri_is_speaking, lvl_is_listening, resume_tasks,
                           ltVars, lvl_threads, listen_thread>>
    /\ UNCHANGED <<voice_client, orch_last>>
    /\ UNCHANGED <<lvl_microphone, voice_queue, last_voice_input,
                   last_input_time, callback_args, heard, nHeard,
                   recent_voice_inputs, recent_voice_responses,
                   last_voice_interaction_time>>
    /\ UNCHANGED notListenerLT

\* _resume_voice_listening_after_speech after its sleep: clears
\* sri_is_speaking and calls resume_listening
ResumeAfterSpeech ==
    /\ resume_tasks > 0
    /\ resume_tasks' = resume_tasks - 1
    /\ sri_is_speaking' = FALSE
    /\ StartThreadBody
    /\ UNCHANGED <<voice_client, orch_last>>
    /\ UNCHANGED <<lvl_microphone, voice_queue, last_voice_input,
                   last_input_time, callback_args, heard, nHeard,
                   recent_voice_inputs, recent_voice_responses,
                   last_voice_interaction_time, vh>>
    /\ UNCHANGED notListener

\* _resume_voice_listening_after_speech when resume_listening raises (the
\* start of the new thread fails after is_listening was set): the handler
\* of the exception clears sri_is_speaking and nothing else; listen_thread
\* is then a thread that is not alive, as 0 is
ResumeAfterSpeechFails ==
    /\ resume_tasks > 0
    /\ lvl_microphone
    /\ resume_tasks' = resume_tasks - 1
    /\ sri_is_speaking' = FALSE
    /\ lvl_threads' = IF Alive(lvl_threads, listen_thread)
                      THEN Joined(lvl_threads, listen_thread)
                      ELSE lvl_threads
    /\ ~Alive(lvl_threads', listen_thread)
    /\ ~lvl_is_listening \/ Alive(lvl_threads, listen_thread)
    /\ lvl_is_listening' = TRUE
    /\ listen_thread' = 0
    /\ UNCHANGED <<voice_client, orch_last>>
    /\ UNCHANGED <<lvl_microphone, voice_queue, last_voice_input,
                   last_input_time, callback_args, heard, nHeard,
                   recent_voice_inputs, recent_voice_responses,
                   last_voice_interaction_time, vh>>
    /\ UNCHANGED notListener

\* VoiceHandler.join_channel: an existing connection is dropped, then one
\* connection attempt
JoinChannel(success) ==
    /\ voice_client' = IF success THEN "connected" ELSE "none"
    /\ orch_last' = "join"
    /\ UNCHANGED <<lvl_threads, listen_thread>>
    /\ UNCHANGED voiceVars
    /\ UNCHANGED notListener

\* the connection ends from the other side: is_connected() turns False
ConnectionLost ==
    /\ voice_client = "connected"
    /\ voice_client' = "dropped"
    /\ UNCHANGED <<lvl_threads, listen_thread, orch_last>>
    /\ UNCHANGED voiceVars
    /\ UNCHANGED notListener

\* VoiceHandler.leave_channel
LeaveChannel ==
    /\ voice_client' = IF voice_client = "connected"
                       THEN "none" ELSE voice_client
    /\ UNCHANGED <<lvl_threads, listen_thread, orch_last>>
    /\ UNCHANGED voiceVars
    /\ UNCHANGED notListener

\* hasattr(self.voice_handler, 'push_to_talk'): VoiceHandler.__init__ sets
\* no attribute of that name
has_push_to_talk == FALSE

\* StreamAIBot.cleanup_resources and async_cleanup_resources, which do the
\* same to the voice handler: stop_listening of its push_to_talk when it
\* has one, and local_tts.stop(), which does nothing
CleanupResources ==
    /\ IF has_push_to_talk
       THEN StopListeningBody
       ELSE UNCHANGED pttVars
    /\ orch_last' = "cleanup"
    /\ UNCHANGED <<lvl_threads, listen_thread, voice_client>>
    /\ UNCHANGED <<elVars, ltVars, optVars, aiVars, voiceVars, cfgVars, ttsVars, junVars>>

\* the leave command: VoiceHandler.stop_listening (is_recording of the
\* voice handler is never set, so only the local listener is stopped),
\* disconnect of the guild's voice client, and the reference cleared
LeaveVoice ==
    /\ LVLStopListeningBody
    /\ voice_client' = "none"
    /\ orch_last' = "stop"
    /\ UNCHANGED <<lvl_microphone, voice_queue, last_voice_input,
                   last_input_time, callback_args, heard, nHeard,
                   recent_voice_inputs, recent_voice_responses,
                   last_voice_interaction_time, sri_is_speaking,
                   resume_tasks, vh>>
    /\ UNCHANGED notListener

(***************************************************************************)
(* JunAI: ask_chatgpt and the histories it keeps per user                  *)
(***************************************************************************)
\* `if len(chat_history) > 9`
jun_history_limit == 9

\* [chat_history[0]] + chat_history[-8:]
JunTrim(h) ==
    IF Len(h) > jun_history_limit
    THEN <<h[1]>> \o SubSeq(h, Len(h) - 7, Len(h))
    ELSE h

\* ask_chatgpt(prompt, user_id): a missing history is created with the
\* system persona, the prompt is appended, then
\* client.chat.completions.create is called; when it returns, the reply is
\* appended and the history is cut; when it raises, the exception leaves
\* ask_chatgpt at that line
AskChatGPT(user_id, backend) ==
    /\ Len(user_histories[user_id]) <= MaxJunHistory
    /\ LET chat_history == IF user_histories[user_id] = <<>>
                           THEN <<"system">>
                           ELSE user_histories[user_id]
           asked == Append(chat_history, "user")
       IN  user_histories' =
               [user_histories EXCEPT ![user_id] =
                   IF backend = "raises" THEN asked
                   ELSE JunTrim(Append(asked, "assistant"))]
    /\ jun_last' = [op |-> "ask_chatgpt", user |-> user_id,
                    backend |-> backend]
    /\ UNCHANGED <<pttVars, elVars, ltVars, optVars, aiVars, voiceVars,
                   cfgVars, lvlVars, ttsVars>>

\* the frame of a step of the pyttsx3 worker or of speak_text
notTTS == <<pttVars, elVars, ltVars, optVars, aiVars, voiceVars, cfgVars,
            lvlVars, junVars>>

\* VoiceHandler.speak_text, _speak: the text is queued when it is not empty
\* and the voice client is connected
SpeakText(empty) ==
    /\ Len(tts_queue) + tts_worker.synthesized
          + (IF tts_worker.pc = "speech" THEN 1 ELSE 0) < MaxSpeakTexts
    /\ tts_queue' = IF ~empty /\ voice_client = "connected"
                    THEN Append(tts_queue, "text")
                    ELSE tts_queue
    /\ UNCHANGED tts_worker
    /\ UNCHANGED notTTS

\* _tts_worker: tts_queue.get(timeout=1) returns an item; None ends the
\* loop (queue.Empty is caught and the loop goes on)
TTSWorkerGet ==
    /\ tts_worker.pc = "get"
    /\ tts_queue # <<>>
    /\ tts_queue' = Tail(tts_queue)
    /\ tts_worker' = [tts_worker EXCEPT
                         !.pc = IF Head(tts_queue) = "None"
                                THEN "ended" ELSE "speech"]
    /\ UNCHANGED notTTS

\* _tts_worker: _generate_speech(text), which catches its exceptions, and
\* task_done
TTSWorkerSpeech ==
    /\ tts_worker.pc = "speech"
    /\ tts_worker' = [pc |-> "get",
                      synthesized |-> tts_worker.synthesized + 1]
    /\ UNCHANGED tts_queue
    /\ UNCHANGED notTTS

(***************************************************************************)
(* PushToTalkListener: the configured key and the result of                *)
(* start_listening                                                         *)
(***************************************************************************)
\* values of PUSH_TO_TALK_KEY
ConfiguredKeys ==
    { <<"f", "1">>,
      <<"c", "t", "r", "l">>,
      <<"F", "N">>,
      <<"F", "u", "n", "c", "t", "i", "o", "n">> }

\* names _get_key_name gives for the keys the keyboard listener reports
KeyNames ==
    { <<"f", "1">>, <<"c", "t", "r", "l", "_", "l">>, <<"a">> }

\* _validate_key_config: False for the keys of problematic_keys; __init__
\* does not use the value
ValidateKeyConfig(key) ==
    key \notin { <<"f", "n">>, <<"f", "u", "n", "c", "t", "i", "o", "n">> }

\* self.key_mappings, the entries of the configured keys
key_mappings ==
    ( <<"f", "1">> :> { <<"f", "1">> } )
      @@ ( <<"c", "t", "r", "l">> :>
             { <<"c", "t", "r", "l">>, <<"c", "t", "r", "l", "_", "l">>,
               <<"c", "t", "r", "l", "_", "r">>,
               <<"c", "o", "n", "t", "r", "o", "l">> } )

\* _is_target_key(detected_key_name)
IsTargetKey(detected_key_name) ==
    \/ detected_key_name = talk_key
    \/ /\ talk_key \in DOMAIN key_mappings
       /\ detected_key_name \in key_mappings[talk_key]

\* __init__: talk_key is the lower-cased value of PUSH_TO_TALK_KEY
CfgInit ==
    /\ talk_key \in {Lower(k) : k \in ConfiguredKeys}
    /\ start_result = "none"

\* the listener with the default key
CfgIdle == CfgInit /\ talk_key = <<"f", "1">>

\* start_listening(): False without a microphone, True when already
\* active; else the keyboard listener is created and started, which can
\* raise, and is_listening_active is set
\* (StartListeningCallUnchecked: the variant without the microphone test)
StartListeningCallUnchecked(listener_raises) ==
    /\ IF is_listening_active
       THEN /\ start_result' = "True"
            /\ UNCHANGED pttVars
       ELSE IF listener_raises
       THEN /\ start_result' = "False"
            /\ UNCHANGED pttVars
       ELSE /\ is_listening_active' = TRUE
            /\ start_result' = "True"
            /\ UNCHANGED <<microphone, is_recording, recording_start_time,
                           mic_stream_open, kbd, nSessions, thr, sess, clock,
                           ticks,
                   notifications>>
    /\ UNCHANGED talk_key
    /\ UNCHANGED notCfg

StartListeningCall(listener_raises) ==
    /\ IF ~microphone
       THEN /\ start_result' = "False"
            /\ UNCHANGED pttVars
       ELSE IF is_listening_active
       THEN /\ start_result' = "True"
            /\ UNCHANGED pttVars
       ELSE IF listener_raises
       THEN /\ start_result' = "False"
            /\ UNCHANGED pttVars
       ELSE /\ StartListeningBody
            /\ start_result' = "True"
    /\ UNCHANGED talk_key
    /\ UNCHANGED notCfg

\* the keyboard listener reports a press of a key: _on_key_press goes on
\* for the target key only
KeyPressed(key_name) ==
    /\ IsTargetKey(key_name)
    /\ OnKeyPress

\* the keyboard listener reports a release of a key
KeyReleased(key_name) ==
    /\ IsTargetKey(key_name)
    /\ OnKeyRelease

(***************************************************************************)
(* Specifications                                                          *)
(***************************************************************************)
\* the push-to-talk listener, its keyboard thread and recording threads
Init ==
    /\ PTTInit
    /\ ELInit /\ el_available
    /\ LTInit /\ lt_available
    /\ OptIdle
    /\ AIIdle
    /\ VoiceIdle
    /\ CfgIdle

PTTNext ==
    \/ Tick
    \/ StartListening
    \/ StopListening
    \/ OnKeyPress
    \/ StartRecording
    \/ OnKeyRelease
    \/ \E s \in Sessions : RecEnterMic(s)
    \/ \E s \in Sessions : RecLoopTest(s)
    \/ \E s \in Sessions : RecListenChunk(s)
    \/ \E s \in Sessions : RecListenTimeout(s)
    \/ \E s \in Sessions : RecListenError(s)
    \/ \E s \in Sessions : RecAfterLoop(s)
    \/ \E s \in Sessions : ProcessRecordedAudio(s)
    \/ \E s \in Sessions : RecFinally(s)

Next == PTTNext

Spec == Init /\ [][Next]_vars

\* the push-to-talk listener with a microphone, for up to MaxRecordings
\* recordings: the talk key is not pressed again after the last of them
InitRecording == Init /\ microphone

NextRecording ==
    \/ Tick
    \/ StartListening
    \/ StopListening
    \/ (is_recording \/ nSessions < MaxRecordings) /\ OnKeyPress
    \/ StartRecording
    \/ OnKeyRelease
    \/ \E s \in Sessions : RecEnterMic(s)
    \/ \E s \in Sessions : RecLoopTest(s)
    \/ \E s \in Sessions : RecListenChunk(s)
    \/ \E s \in Sessions : RecListenTimeout(s)
    \/ \E s \in Sessions : RecListenError(s)
    \/ \E s \in Sessions : RecAfterLoop(s)
    \/ \E s \in Sessions : ProcessRecordedAudio(s)
    \/ \E s \in Sessions : RecFinally(s)

SpecRecording == InitRecording /\ [][NextRecording]_vars

\* ElevenLabsTTS with speak_async calls that overlap on the event loop
InitTTS ==
    /\ PTTInit /\ microphone
    /\ ELInit
    /\ LTInit /\ lt_available
    /\ OptIdle
    /\ AIIdle
    /\ VoiceIdle
    /\ CfgIdle

NextTTS ==
    \/ \E t \in Texts : SpeakAsync(t)
    \/ \E t \in Texts, o \in ApiOutcomes : ApiResponse(t, o)
    \/ \E t \in Texts, ok \in BOOLEAN : Playback(t, ok)
    \/ GetUsageInfo
    \/ DayRollover

SpecTTS == InitTTS /\ [][NextTTS]_vars

\* ElevenLabsTTS with speak_async calls that run one at a time
NextTTSSeq ==
    \/ \E t \in Texts : SpeakAsyncAlone(t)
    \/ \E t \in Texts, o \in ApiOutcomes : ApiResponse(t, o)
    \/ \E t \in Texts, ok \in BOOLEAN : Playback(t, ok)
    \/ GetUsageInfo
    \/ DayRollover

SpecTTSSeq == InitTTS /\ [][NextTTSSeq]_vars

\* LocalTTS and the tasks its speak() creates on the event loop
InitLocalTTS ==
    /\ PTTInit /\ microphone
    /\ ELInit /\ el_available
    /\ LTInit
    /\ OptIdle
    /\ AIIdle
    /\ VoiceIdle
    /\ CfgIdle

NextLocalTTS ==
    \/ \E blank \in BOOLEAN : LocalSpeak(blank)
    \/ \E i \in Utterances : TaskStart(i)
    \/ \E i \in Utterances : TaskSpawned(i)
    \/ \E i \in Utterances : TaskSpawnFails(i)
    \/ \E i \in Utterances : ProcessExit(i)
    \/ \E i \in Utterances : TaskFinish(i)

SpecLocalTTS == InitLocalTTS /\ [][NextLocalTTS]_vars

\* _optimize_text applied to every short string
InitOptimize ==
    /\ PTTInit /\ microphone
    /\ ELInit /\ el_available
    /\ LTInit /\ lt_available
    /\ OptInit
    /\ AIIdle
    /\ VoiceIdle
    /\ CfgIdle

NextOptimize == OptimizeCall

SpecOptimize == InitOptimize /\ [][NextOptimize]_vars

\* should_respond, _get_fallback_response and process_message applied to
\* every message of the vocabulary
InitWords ==
    /\ PTTInit /\ microphone
    /\ ELInit /\ el_available
    /\ LTInit /\ lt_available
    /\ OptIdle
    /\ AIInit
    /\ word_input \in MessagesUpTo(MaxWords)
    /\ VoiceIdle
    /\ CfgIdle

NextWords ==
    \/ ShouldRespondCall
    \/ GetFallbackResponseCall
    \/ \E b \in OutcomesFor(word_input) : ProcessWordInput(b)

SpecWords == InitWords /\ [][NextWords]_vars

\* AIAssistant with the turns of the text channel
InitAI ==
    /\ PTTInit /\ microphone
    /\ ELInit /\ el_available
    /\ LTInit /\ lt_available
    /\ OptIdle
    /\ AIInit /\ word_input = <<>>
    /\ VoiceIdle
    /\ CfgIdle

NextAI ==
    \/ \E turn \in Turns : \E b \in OutcomesFor(turn.message) :
          ProcessMessage(turn, b)
    \/ AddSystemMessage(SystemNote)

SpecAI == InitAI /\ [][NextAI]_vars

\* the voice path: the local listener, push-to-talk transcripts and the
\* voice handler with the assistant and LocalTTS.speak
InitVoice ==
    /\ PTTInit /\ microphone
    /\ ELInit /\ el_available
    /\ LTInit
    /\ OptIdle
    /\ AIInit /\ api_key /\ word_input = <<>>
    /\ VoiceInit /\ lvl_microphone
    /\ CfgIdle

NextVoice ==
    \/ LVLStartListening
    \/ \E outcomes \in CycleOutcomes : LVLListenCycle(outcomes)
    \/ \E audio_size \in AudioSizes, id, en \in RecognitionOutcomes :
          DeliverRecordedAudio(audio_size, id, en)
    \/ VoiceQueueProcessor
    \/ CallbackProcessor
    \/ \E result \in SendResults : VoiceSendText(result)
    \/ VoiceSpeakReply
    \/ ResumeAfterSpeech

SpecVoice == InitVoice /\ [][NextVoice]_vars

\* the voice path with a resume task that can fail
NextSpeaking ==
    \/ NextVoice
    \/ ResumeAfterSpeechFails

SpecSpeaking == InitVoice /\ [][NextSpeaking]_vars

\* the two synthesis workers and the cleanup of the bot
InitShutdown == InitVoice /\ lt_available

NextShutdown ==
    \/ \E success \in BOOLEAN : JoinChannel(success)
    \/ \E empty \in BOOLEAN : SpeakText(empty)
    \/ TTSWorkerGet
    \/ TTSWorkerSpeech
    \/ \E blank \in BOOLEAN : LocalSpeak(blank)
    \/ \E i \in Utterances : TaskStart(i)
    \/ \E i \in Utterances : TaskSpawned(i)
    \/ \E i \in Utterances : TaskSpawnFails(i)
    \/ \E i \in Utterances : ProcessExit(i)
    \/ \E i \in Utterances : TaskFinish(i)
    \/ CleanupResources

SpecShutdown == InitShutdown /\ [][NextShutdown]_vars

\* the transcription alone, for every audio and every outcome of each
\* recognize_google call: the languages offered, how each call that was
\* made ended, and what was handed on
TranscribeRecorded(audio_size, id, en) ==
    /\ LET r == RecordedAudioResult(audio_size, id, en)
       IN  heard' = [source |-> "ptt", last |-> LastCall(r.calls),
                     delivered |-> r.callback, audio |-> audio_size,
                     outcomes |-> <<id, en>>, calls |-> r.calls]
    /\ UNCHANGED <<lvl_microphone, lvl_is_listening, voice_queue,
                   last_voice_input, last_input_time, callback_args, nHeard,
                   recent_voice_inputs, recent_voice_responses,
                   last_voice_interaction_time, sri_is_speaking,
                   resume_tasks, vh>>
    /\ UNCHANGED notVoice

TranscribeCycle(outcomes) ==
    /\ LET r == ListenCycleResult(outcomes)
       IN  heard' = [source |-> "lvl", last |-> LastCall(r.calls),
                     delivered |-> r.enqueue, audio |-> "ok",
                     outcomes |-> outcomes, calls |-> r.calls]
    /\ UNCHANGED <<lvl_microphone, lvl_is_listening, voice_queue,
                   last_voice_input, last_input_time, callback_args, nHeard,
                   recent_voice_inputs, recent_voice_responses,
                   last_voice_interaction_time, sri_is_speaking,
                   resume_tasks, vh>>
    /\ UNCHANGED notVoice

InitLanguages == InitVoice

NextLanguages ==
    \/ \E audio_size \in AudioSizes, id, en \in RecognitionOutcomes :
          TranscribeRecorded(audio_size, id, en)
    \/ \E outcomes \in CycleOutcomes : TranscribeCycle(outcomes)

SpecLanguages == InitLanguages /\ [][NextLanguages]_vars

\* JunAI: ask_chatgpt calls for two users, the backend answering or
\* raising
InitJun == InitVoice

NextJun ==
    \E user_id \in JunUsers, backend \in {"returns", "raises"} :
        AskChatGPT(user_id, backend)

SpecJun == InitJun /\ [][NextJun]_vars

\* the voice path of the local listener while time passes, 2 seconds at a
\* time: every language recognizes the same text, which is not blank
InitDuplicates == InitVoice /\ lt_available

NextDuplicates ==
    \/ Tick /\ clock' = clock + phrase_time_limit
    \/ LVLStartListening
    \/ \E text \in {t \in HeardTexts : ~IsBlank(t)} :
          LVLListenCycle([k \in 1..Len(languages) |-> Recognized(text)])
    \/ VoiceQueueProcessor
    \/ \E result \in SendResults : VoiceSendText(result)
    \/ VoiceSpeakReply
    \/ ResumeAfterSpeech

SpecDuplicates == InitDuplicates /\ [][NextDuplicates]_vars

\* the local listener with its threads, the voice handler that starts,
\* pauses, resumes and stops it, and the voice connection
InitListener == InitVoice

NextListener ==
    \/ LVLStartListening
    \/ \E t \in ThreadIds : ThreadLoopTest(t)
    \/ \E t \in ThreadIds : ListenWaitTimeout(t)
    \/ \E t \in ThreadIds : ListenCriticalError(t)
    \/ \E t \in ThreadIds, outcomes \in UniformOutcomes :
          ListenAudio(t, outcomes)
    \/ VoiceQueueProcessor
    \/ \E result \in SendResults : VoiceSendText(result)
    \/ VoiceSpeakReply
    \/ ResumeAfterSpeech
    \/ \E success \in BOOLEAN : JoinChannel(success)
    \/ ConnectionLost
    \/ LeaveChannel
    \/ LeaveVoice
    \/ CleanupResources

SpecListener == InitListener /\ [][NextListener]_vars

\* the push-to-talk listener as its owner and the keyboard see it:
\* construction with a key and with or without a microphone, the calls
\* start_listening and stop_listening, key presses and releases
InitConfig ==
    /\ PTTInit
    /\ ELInit /\ el_available
    /\ LTInit /\ lt_available
    /\ OptIdle
    /\ AIIdle
    /\ VoiceIdle
    /\ CfgInit

NextConfig ==
    \/ Tick
    \/ \E listener_raises \in BOOLEAN : StartListeningCall(listener_raises)
    \/ StopListening
    \/ \E key_name \in KeyNames : KeyPressed(key_name)
    \/ StartRecording
    \/ \E key_name \in KeyNames : KeyReleased(key_name)

SpecConfig == InitConfig /\ [][NextConfig]_vars

(***************************************************************************)
(* Claims about PushToTalkListener                                         *)
(***************************************************************************)

\* C1: at most one thread executes _record_audio at any time.
C1_OneCaptureSession == Cardinality(InRecordAudio) <= 1

\* C2: a session whose key release came before min_recording_duration has
\* no speech-recognition call and no transcript callback.
C2_ShortReleaseNoTranscription ==
    \A s \in Sessions :
        sess[s].rel = "short" => sess[s].recog = 0 /\ sess[s].cb = 0

\* C3: a finished session released between the minimum and the maximum
\* duration, whose thread captured audio, has exactly one
\* _process_recorded_audio call.
C3_ExactlyOneTranscription ==
    \A s \in Sessions :
        (sess[s].rel = "ok" /\ thr[s].pc = "done" /\ thr[s].chunks > 0)
            => sess[s].proc = 1

\* C4: a session whose thread is still capturing has not been recording for
\* more than max_recording_duration.
C4_HardCeiling ==
    (is_recording /\ \E s \in Sessions : thr[s].pc = "listen")
        => RecordingDuration <= max_recording_duration

(***************************************************************************)
(* Claims about LocalTTS                                                   *)
(***************************************************************************)

\* C5: the playback intervals of two utterances never overlap: at most one
\* speech process is running at any time.
C5_PlaybackExclusive ==
    Cardinality({i \in Utterances : utt[i] = "playing"}) <= 1

(***************************************************************************)
(* Claims about ElevenLabsTTS                                              *)
(***************************************************************************)
\* ways in which the primary path is skipped or fails
PrimaryFailures ==
    {"quota", "429", "http_error", "exception", "200_read_error"}

\* C6: when the primary path is skipped for quota or fails, the local
\* synthesis is invoked and, if it is available, the speak operation
\* returns True.
C6_FallbackGuarantee ==
    (lastOp.op \in {"speak_async", "api_response"}
        /\ lastOp.outcome \in PrimaryFailures)
        => (Created # {} /\ (lt_available => lastOp.result))

\* the counter that a quota check starting in the current state compares
DayStartUsage == IF last_reset_date # today THEN 0 ELSE daily_usage

\* C7: a speak_async call whose optimized text does not fit in the rest of
\* the daily limit sends no request and leaves daily_usage unchanged; a call
\* whose optimized text fits sends its request; and no request is sent
\* except by a call that passed this check.
C7_QuotaGate ==
    [][ /\ (lastOp'.op = "speak_async" /\ el_available) =>
              IF DayStartUsage + OptimizedLen(lastOp'.text) > daily_char_limit
              THEN /\ lastOp'.outcome = "quota"
                   /\ req' = req
                   /\ daily_usage' = daily_usage
              ELSE /\ lastOp'.outcome = "sent"
                   /\ req' = req (+) SetToBag({AtApi(lastOp'.text)})
        /\ \A t \in Texts :
              CopiesIn(AtApi(t), req') > CopiesIn(AtApi(t), req) =>
                  /\ lastOp'.op = "speak_async"
                  /\ lastOp'.text = t
                  /\ DayStartUsage + OptimizedLen(t) <= daily_char_limit
      ]_vars

\* C7 witness: 4900 characters used, a text of 200 characters is refused.
C7_Witness ==
    /\ lastOp.op = "speak_async"
    /\ lastOp.outcome = "quota"
    /\ daily_usage = 4900
    /\ OptimizedLen(lastOp.text) = 200

\* C8: with speak_async calls that run one at a time, daily_usage never
\* exceeds daily_char_limit.
C8_UsageWithinLimit == daily_usage <= daily_char_limit

\* C8 witness: a successful request has used up the limit exactly.
C8_Witness ==
    /\ daily_usage = daily_char_limit
    /\ lastOp.op = "api_response"
    /\ lastOp.outcome = "200"

\* C9: daily_usage grows by len(optimized text) when the provider's 200
\* response has been read, stays unchanged for every other response, and
\* grows in no other step.
C9_UsageAccounting ==
    [][ /\ lastOp'.op = "api_response" =>
              daily_usage' = daily_usage +
                  (IF lastOp'.outcome \in {"200", "200_empty"}
                   THEN OptimizedLen(lastOp'.text) ELSE 0)
        /\ daily_usage' > daily_usage =>
              /\ lastOp'.op = "api_response"
              /\ lastOp'.outcome \in {"200", "200_empty"}
      ]_vars

\* C9 witness: a 429 response has left the counter at the 300 characters of
\* an earlier success.
C9_Witness ==
    /\ lastOp.op = "api_response"
    /\ lastOp.outcome = "429"
    /\ daily_usage = 300

\* a step that runs _reset_daily_usage_if_needed
ResetPoint(op) ==
    \/ op.op = "get_usage_info"
    \/ op.op = "speak_async" /\ op.outcome # "unavailable"

\* C10: a quota check or get_usage_info made on a new day sets daily_usage
\* to 0 and last_reset_date to today before comparing or reporting; while
\* the date equals last_reset_date the counter never decreases.
C10_DailyReset ==
    [][ /\ (ResetPoint(lastOp') /\ last_reset_date # today) =>
              /\ last_reset_date' = today
              /\ daily_usage' = 0
              /\ lastOp'.op = "get_usage_info" =>
                    lastOp'.info.daily_used = 0
              /\ lastOp'.op = "speak_async" => lastOp'.outcome = "sent"
        /\ last_reset_date = today => daily_usage' >= daily_usage
      ]_vars

\* C10 witness: the counter is 0 on day 1 although a request billed before
\* the reset is still being played.
C10_Witness ==
    /\ today = 1
    /\ last_reset_date = 1
    /\ daily_usage = 0
    /\ \E q \in InFlight : q.pc = "playback"

\* C11: a get_usage_info call that directly follows another one (no speak
\* step and no day change in between) returns the same daily_used,
\* daily_limit, remaining and cost estimate and leaves daily_usage and
\* last_reset_date as they were; and a call made on the day of the last
\* reset never changes daily_usage.
C11_UsageInfoIdempotent ==
    [][ /\ (lastOp.op = "get_usage_info" /\ lastOp'.op = "get_usage_info") =>
              /\ lastOp'.info = lastOp.info
              /\ daily_usage' = daily_usage
              /\ last_reset_date' = last_reset_date
        /\ (lastOp'.op = "get_usage_info" /\ last_reset_date = today) =>
              /\ daily_usage' = daily_usage
              /\ lastOp'.info.daily_used = daily_usage
      ]_vars

\* C11 witness: a second get_usage_info call in a row reports the 300
\* characters billed so far, 4700 remaining and their cost.
C11_Witness ==
    /\ lastOp.op = "get_usage_info"
    /\ lastOp.again
    /\ daily_usage = 300
    /\ lastOp.info.daily_used = 300
    /\ lastOp.info.remaining = 4700
    /\ lastOp.info.cost_estimate_today = 22500

(***************************************************************************)
(* Claims about ElevenLabsTTS._optimize_text                               *)
(***************************************************************************)
\* the characters of a string that are not blanks
NonBlank(str) == SelectSeq(str, LAMBDA ch : ch # " ")

\* where the words of a string end: for every blank, the number of
\* non-blank characters before it, the start and the end of the string
\* excepted
WordBreaks(str) ==
    {Len(NonBlank(SubSeq(str, 1, i))) : i \in {j \in 1..Len(str) : str[j] = " "}}
        \ {0, Len(NonBlank(str))}

\* c is text with its whitespace collapsed: the same non-blank characters
\* in the same order, broken into the same words, with one blank between
\* two words and none elsewhere
IsWhitespaceCollapsed(c, text) ==
    /\ NonBlank(c) = NonBlank(text)
    /\ WordBreaks(c) = WordBreaks(text)
    /\ c # <<>> => c[1] # " " /\ c[Len(c)] # " "
    /\ \A i \in 1..(Len(c) - 1) : ~(c[i] = " " /\ c[i + 1] = " ")

\* the lengths of the prefixes of c that end in a period and fit in bound
SentencePrefixes(c, bound) ==
    {k \in 1..bound : k <= Len(c) /\ c[k] = "."}

SetMax(S) == CHOOSE x \in S : \A y \in S : y <= x

\* C12: the result of _optimize_text has at most max_chars characters; a
\* text that fits once its whitespace is collapsed is returned collapsed and
\* otherwise unchanged; a longer one is cut to its longest prefix that ends
\* in a period and fits, and when there is no such prefix to its first
\* max_chars - 3 characters followed by "...".
C12_OptimizeText ==
    opt_result.done =>
        \E c \in StringsUpTo(Len(opt_text)) :
            /\ IsWhitespaceCollapsed(c, opt_text)
            /\ Len(opt_result.text) <= opt_max
            /\ Len(c) <= opt_max => opt_result.text = c
            /\ Len(c) > opt_max =>
                  LET P == SentencePrefixes(c, opt_max)
                  IN  IF P # {}
                      THEN opt_result.text = SubSeq(c, 1, SetMax(P))
                      ELSE opt_result.text =
                               SubSeq(c, 1, opt_max - 3) \o <<".", ".", ".">>

\* C12 witness: "a.a  aa" with max_chars = 4 collapses to "a.a aa", which
\* is too long, and is cut after its first sentence to "a.".
C12_Witness ==
    /\ opt_result.done
    /\ opt_text = <<"a", ".", "a", " ", " ", "a", "a">>
    /\ opt_max = 4
    /\ opt_result.text = <<"a", ".">>

(***************************************************************************)
(* Claims about AIAssistant                                                *)
(***************************************************************************)

\* C13: conversation_history never has more than 10 entries.
C13_HistoryBound == Len(conversation_history) <= history_limit

\* C14: a System entry that is the first element of conversation_history
\* stays the first element, unchanged, in every later step.
C14_PinnedFirstEntry ==
    [][ (conversation_history # <<>>
            /\ conversation_history[1].user = "System")
        => (conversation_history' # <<>>
               /\ conversation_history'[1] = conversation_history[1])
      ]_vars

\* word occurs in str at position i + 1, letter case ignored
OccursAt(str, word, i) ==
    /\ i + Len(word) <= Len(str)
    /\ \A j \in 1..Len(word) : LowerChar(str[i + j]) = word[j]

OccursIn(str, word) == \E i \in 0..Len(str) : OccursAt(str, word, i)

\* the message contains the wake-word or starts with a direct-address
\* phrase, letter case ignored
IsAddressed(message) ==
    \/ OccursIn(message, <<"s", "r", "i">>)
    \/ \E k \in 1..Len(direct_indicators) :
          OccursAt(message, direct_indicators[k], 0)

\* a step that is a process_message call
ProcessMessageStep == ai_last'.op = "process_message"

\* C15 as claimed: every process_message call for a message that is not
\* addressed to Sri returns no reply, makes no backend call and appends
\* exactly the entry (speaker, message) to the history.
C15_IgnoredTurn ==
    [][ (ProcessMessageStep /\ ~IsAddressed(ai_last'.message)) =>
            /\ ai_last'.reply = NoReply
            /\ ai_last'.calls = 0
            /\ conversation_history' =
                   Append(conversation_history,
                          Entry(ai_last'.user, ai_last'.message))
      ]_vars

\* C15 amended: the same for an assistant that has its API key.
C15_IgnoredTurnConfigured ==
    [][ (api_key /\ ProcessMessageStep /\ ~IsAddressed(ai_last'.message)) =>
            /\ ai_last'.reply = NoReply
            /\ ai_last'.calls = 0
            /\ conversation_history' =
                   Append(conversation_history,
                          Entry(ai_last'.user, ai_last'.message))
      ]_vars

\* C15 witness: an ignored turn of Budi is appended as the 11th entry after
\* a System entry and turns of Kak, and returns no reply.
C15_Witness ==
    /\ ai_last.op = "process_message"
    /\ ai_last.reply = NoReply
    /\ ai_last.user = "Budi"
    /\ Len(conversation_history) = 11
    /\ conversation_history[1].user = "System"
    /\ conversation_history[10].user = "Kak"
    /\ conversation_history[11] = Entry("Budi", TurnIgnored.message)

\* C16: should_respond(text) is True exactly when the text contains the
\* wake-word or starts with a direct-address phrase, letter case ignored,
\* and the call changes nothing of the assistant.
C16_ShouldRespond ==
    [][ ai_last'.op = "should_respond" =>
            /\ ai_last'.result = IsAddressed(ai_last'.message)
            /\ UNCHANGED <<api_key, conversation_history, current_game>>
      ]_vars

\* C16 witness: "What bye" is answered for its first word, after an earlier
\* turn has been recorded.
C16_Witness ==
    /\ ai_last.op = "should_respond"
    /\ ai_last.message = <<"W", "h", "a", "t", " ", "b", "y", "e">>
    /\ ai_last.result
    /\ Len(conversation_history) = 1

\* the fallback reply by the precedence greeting, farewell, 'siap' with
\* 'sri', game, default
FallbackByPrecedence(message) ==
    LET greeting == \E k \in 1..Len(greeting_words) :
                        OccursIn(message, greeting_words[k])
        farewell == \E k \in 1..Len(farewell_words) :
                        OccursIn(message, farewell_words[k])
        ready == OccursIn(message, <<"s", "i", "a", "p">>)
                    /\ OccursIn(message, <<"s", "r", "i">>)
        game == \E k \in 1..Len(game_words) :
                    OccursIn(message, game_words[k])
    IN  CASE greeting -> "Halo Kak! Sri siap bantuin streaming hari ini!"
          [] ~greeting /\ farewell ->
                "Dadah Kak! Terima kasih buat streaming hari ini! Sampai jumpa lagi ya!"
          [] ~greeting /\ ~farewell /\ ready ->
                "Siap banget, Kak! Sri udah excited nih buat bantuin streaming!"
          [] ~greeting /\ ~farewell /\ ~ready /\ game ->
                "Wah seru nih! Sri suka nonton Kakak main game!"
          [] OTHER -> "Iya Kak! Sri di sini siap bantuin!"

C17_PushToTalkForcesReply ==
    (vh.source = "ptt" /\ ~vh.duplicate) => vh.response # NoReply

\* a transcription that gave no transcript: no recognize_google call, or
\* the last one ended with no match, a request error or a blank text
NoTranscript == heard.last # "text"

\* a string with a character that is not a blank
HasText(str) == NonBlank(str) # <<>>

\* C19: a transcription that ends with no match in every language, with a
\* service error or with an empty text calls no callback and enqueues no
\* voice input, reaches neither the assistant nor its history; so no
\* blank transcript is ever queued, handed to the callback, given to
\* process_message or recorded in the history.
C19_SilentTranscription ==
    [][ /\ (nHeard' = nHeard + 1 /\ NoTranscript') =>
              /\ heard'.delivered = None
              /\ voice_queue' = voice_queue
              /\ callback_args' = callback_args
              /\ conversation_history' = conversation_history
              /\ ai_last' = ai_last
        /\ \A i \in DOMAIN voice_queue' : HasText(voice_queue'[i])
        /\ \A i \in DOMAIN callback_args' : HasText(callback_args'[i])
        /\ ai_last'.op = "process_message" => HasText(ai_last'.message)
        /\ \A i \in DOMAIN conversation_history' :
              HasText(conversation_history'[i].message)
      ]_vars

\* C19 witness: after a first voice input was answered, the local listener
\* hears audio that no language recognizes; nothing is queued and the
\* history still has the one entry.
C19_Witness ==
    /\ nHeard = 2
    /\ heard.source = "lvl"
    /\ heard.last = "unknown"
    /\ heard.delivered = None
    /\ voice_queue = <<>>
    /\ callback_args = <<>>
    /\ Len(conversation_history) = 1
    /\ ai_last.calls = 1

(***************************************************************************)
(* Claims about stop_listening of PushToTalkListener                       *)
(***************************************************************************)
\* C20: once stop_listening has been called, no transcription call is
\* started and no transcript callback is delivered for a recording that
\* was in progress at the time of the stop: a session that stop_listening
\* found recording never reaches recognize_google or callback_func.
C20_NoTranscriptionAfterStop ==
    \A s \in Sessions :
        sess[s].stopped => (sess[s].recog = 0 /\ sess[s].cb = 0)

(***************************************************************************)
(* Claims about the construction of PushToTalkListener                     *)
(***************************************************************************)
\* C21: a listener configured with a key that cannot be detected ('fn' or
\* 'function', in any letter case) does not become active: start_listening
\* does not succeed for it and no recording is ever started.
C21_UndetectableKeyRejected ==
    ~ValidateKeyConfig(talk_key) =>
        /\ ~is_listening_active
        /\ start_result # "True"
        /\ nSessions = 0

\* C22: when the microphone could not be initialised it stays unavailable,
\* every start_listening call returns False, and there is never a keyboard
\* listener, a recording thread, an active listener or a recording.
C22_UnavailableMicrophone ==
    [][ /\ microphone' = microphone
        /\ ~microphone =>
              /\ start_result' \in {"none", "False"}
              /\ ~is_listening_active'
              /\ ~is_recording'
              /\ kbd' = "idle"
              /\ nSessions' = 0
              /\ thr' = thr
      ]_vars

\* C22 witness: start_listening has returned False for a listener without
\* microphone, and time has passed.
C22_Witness ==
    /\ ~microphone
    /\ start_result = "False"
    /\ ~is_listening_active
    /\ clock > 0

(***************************************************************************)
(* Claims about the routing of a reply                                     *)
(***************************************************************************)
\* a reply that is neither None nor empty
NonEmptyReply(response) == response # NoReply /\ response # ""

\* a call of LocalTTS.speak is made in this step
SpeakRequested == utt' # utt \/ speak_result' # speak_result

\* C23: for every non-empty reply to a voice transcript the delivery to the
\* text channel is attempted before speech synthesis is requested, and
\* synthesis is requested whatever the delivery did, without changing what
\* the delivery did; for an empty or None reply neither is attempted.
C23_ReplyRouting ==
    [][ /\ (vh.pc = "idle" /\ vh' # vh) =>
              /\ vh'.send = "none" /\ ~vh'.spoken
              /\ vh'.pc = IF ~vh'.duplicate /\ NonEmptyReply(vh'.response)
                          THEN "send" ELSE "idle"
        /\ (vh.pc = "send" /\ vh' # vh) =>
              /\ vh'.pc = "speak"
              /\ vh'.send \in SendResults
              /\ ~SpeakRequested
        /\ (vh.pc = "speak" /\ vh' # vh) =>
              /\ vh'.pc = "idle"
              /\ vh'.send = vh.send
              /\ lt_available => (SpeakRequested /\ vh'.spoken)
        /\ SpeakRequested => vh.pc = "speak"
        /\ vh'.pc = "speak" => vh.pc \in {"send", "speak"}
      ]_vars

\* C23 witness: the delivery of a reply to the text channel failed and the
\* reply was then given to LocalTTS.speak, which accepted it.
C23_Witness ==
    /\ vh.pc = "idle"
    /\ vh.send = "failed"
    /\ vh.spoken
    /\ speak_result = "True"
    /\ NonEmptyReply(vh.response)

(***************************************************************************)
(* Claims about stopping and about the listener's threads                  *)
(***************************************************************************)
\* C24: after the leave command, and until the voice handler is told to
\* listen or to join again, the listener's is_listening is False and the
\* voice client reference is cleared.
C24_StoppedStaysStopped ==
    orch_last = "stop" => ~lvl_is_listening /\ voice_client = "none"

\* C25: after the cleanup of the bot has run, once or several times, and
\* until the voice handler is told to listen or to join again, capture is
\* stopped: the local listener does not listen, the push-to-talk listener
\* is not active and is_recording is False.
C25_CleanupStopsCapture ==
    orch_last = "cleanup" =>
        ~lvl_is_listening /\ ~is_listening_active /\ ~is_recording

\* the greetings of the fixed set followed by the wake word
GreetingWithSri == {g \o <<" ">> \o sri : g \in explicit_greetings}

\* C26: a standalone greeting of the fixed set is handed on by the listener
\* as the greeting followed by "sri", never as the bare greeting, and a
\* greeting followed by "sri" that the voice handler processes gets a
\* reply from process_message.
C26_GreetingScenario ==
    /\ heard.delivered.some => heard.delivered.val \notin explicit_greetings
    /\ (vh.source # "none" /\ ~vh.duplicate /\ vh.text \in GreetingWithSri)
          => vh.response # NoReply

\* the characters of the requests of the texts ts that are suspended in the
\* provider call
RECURSIVE PendingChars(_)
PendingChars(ts) ==
    IF ts = {} THEN 0
    ELSE LET t == CHOOSE x \in ts : TRUE
         IN  CopiesIn(AtApi(t), req) * OptimizedLen(t)
                + PendingChars(ts \ {t})

\* C27: with overlapping speak_async calls the check and the increment act
\* as one critical section: daily_usage never exceeds daily_char_limit, and
\* the requests that are with the provider fit, together, in what is left
\* of the limit.
C27_QuotaCriticalSection ==
    /\ daily_usage <= daily_char_limit
    /\ daily_usage + PendingChars(Texts) <= daily_char_limit

\* the sessions whose thread is in _process_recorded_audio
InTranscription == {s \in Sessions : thr[s].pc = "process"}

\* C28: a new recording is started only when the thread of every earlier
\* one has finished; two recordings are never transcribed at the same time;
\* and a recording is transcribed only after the earlier ones are through
\* with theirs.
C28_OneUtteranceEndToEnd ==
    [][ /\ nSessions' > nSessions =>
              \A s \in 1..nSessions : thr[s].pc = "done"
        /\ Cardinality(InTranscription') <= 1
        /\ \A s1, s2 \in Sessions :
              (s1 < s2 /\ thr'[s2].pc = "process")
                  => thr'[s1].pc \in {"finally", "done"}
      ]_vars

C29_OneListenLoop ==
    Cardinality({t \in ThreadIds : Alive(lvl_threads, t)}) <= 1

(***************************************************************************)
(* Claims about the speaking flag                                          *)
(***************************************************************************)
\* C31: every step that sets sri_is_speaking pauses the listener and
\* creates the task that resumes it; every step in which such a task ends
\* leaves sri_is_speaking False and the listener listening with a live
\* thread; and while sri_is_speaking is set no input of voice_queue is
\* taken or processed.
C31_SpeakingFlag ==
    [][ /\ (~sri_is_speaking /\ sri_is_speaking') =>
              /\ ~lvl_is_listening'
              /\ resume_tasks' = resume_tasks + 1
        /\ resume_tasks' < resume_tasks =>
              /\ ~sri_is_speaking'
              /\ lvl_is_listening'
              /\ Alive(lvl_threads', listen_thread')
        /\ sri_is_speaking =>
              /\ Len(voice_queue') >= Len(voice_queue)
              /\ (vh.pc = "idle" /\ vh' # vh) => vh'.source # "lvl"
        /\ sri_is_speaking => resume_tasks > 0
      ]_vars


\* the number of True values among the notifications
RECURSIVE CountTrue(_)
CountTrue(q) ==
    IF q = <<>> THEN 0
    ELSE (IF Head(q) THEN 1 ELSE 0) + CountTrue(Tail(q))

\* the True notifications that no False notification has followed yet
PendingTrue ==
    {i \in 1..Len(notifications) :
        /\ notifications[i]
        /\ \A j \in (i + 1)..Len(notifications) : notifications[j]}

ThreadRank(pc) ==
    CASE pc = "none" -> 0
      [] pc = "start" -> 1
      [] pc \in {"loop", "listen"} -> 2
      [] pc = "after_loop" -> 3
      [] pc = "process" -> 4
      [] pc = "finally" -> 5
      [] pc = "done" -> 6

C37_OneStopNotification ==
    \A i \in 1..Len(notifications) : notifications[i] = (i % 2 = 1)

\* C34: once the cleanup of the bot has run, the pyttsx3 worker synthesizes
\* no further text, takes nothing more from tts_queue, and no LocalTTS
\* task starts to speak
C34_ShutdownStopsSynthesis ==
    [][orch_last = "cleanup" =>
          /\ tts_worker'.synthesized = tts_worker.synthesized
          /\ Len(tts_queue') >= Len(tts_queue)
          /\ \A i \in Utterances :
                utt'[i] = "playing" => utt[i] = "playing"
      ]_vars

\* a transcription that reached the recognition calls
Transcribed == heard.source # "none" /\ heard.audio \in {"ok", "unreadable"}

\* C35: the languages are tried in their order, the k-th call is made
\* only after every earlier language gave no text, the calls stop at the
\* first language that returns a text, which is the text handed on, and
\* they stop for no other reason: after a language that failed with no
\* match or with a service error the next language is tried
C35_LanguageFallbackOrder ==
    Transcribed =>
        /\ Len(heard.calls) \in 1..Len(heard.outcomes)
        /\ \A k \in 1..Len(heard.calls) :
              /\ heard.calls[k] = CallKind(heard.outcomes[k])
              /\ \A j \in 1..(k - 1) : heard.calls[j] # "text"
        /\ heard.last = "text" =>
              /\ heard.delivered.some
              /\ \A j \in 1..(Len(heard.calls) - 1) :
                    heard.calls[j] # "text"
        /\ Len(heard.calls) < Len(heard.outcomes) =>
              heard.last \in {"text", "blank"}

\* the same for the local listener alone, where it holds
C35_LocalListenerOrder == heard.source = "lvl" => C35_LanguageFallbackOrder

\* the entries of one speaker in the assistant's history, in their order
RECURSIVE EntriesOf(_, _)
EntriesOf(user, history) ==
    IF history = <<>> THEN <<>>
    ELSE IF Head(history).user = user
         THEN <<Head(history)>> \o EntriesOf(user, Tail(history))
         ELSE EntriesOf(user, Tail(history))

\* C36: a process_message call for one speaker leaves the entries of every
\* other speaker as they were: none added, none evicted, none reordered
C36_PerSpeakerHistory ==
    [][ProcessMessageStep =>
          \A turn \in Turns :
              turn.user # ai_last'.user =>
                  EntriesOf(turn.user, conversation_history') =
                      EntriesOf(turn.user, conversation_history)
      ]_vars

\* the same for ask_chatgpt, whose histories are kept per user id
C36_JunPerUserHistory ==
    [][\A u \in JunUsers :
          user_histories'[u] # user_histories[u] => jun_last'.user = u
      ]_vars

\* C40: after an ask_chatgpt call for a user, returned or raised, that
\* user's history has at most 9 entries and begins with the system entry
C40_JunHistoryBound ==
    jun_last.op = "ask_chatgpt" =>
        /\ Len(user_histories[jun_last.user]) <= jun_history_limit
        /\ user_histories[jun_last.user][1] = "system"

\* the same after the calls that returned
C40_BoundAfterReturn ==
    (jun_last.op = "ask_chatgpt" /\ jun_last.backend = "returns") =>
        /\ Len(user_histories[jun_last.user]) <= jun_history_limit
        /\ user_histories[jun_last.user][1] = "system"

\* the _speak_async tasks that have started and not ended
RunningTasks == {i \in Utterances : utt[i] \in {"spawning", "playing", "exited"}}

\* C38: is_speaking is set only while a _speak_async task is running; the
\* step that ends a task, after the process exited or failed to start,
\* leaves it cleared; while it is set speak() creates no task, and a
\* speak() call made then returns False and changes nothing else
C38_SpeakingFlag ==
    [][ /\ is_speaking => RunningTasks # {}
        /\ is_speaking' => RunningTasks' # {}
        /\ \A i \in Utterances :
              (utt[i] # "done" /\ utt'[i] = "done") => ~is_speaking'
        /\ is_speaking =>
              /\ Created' = Created
              /\ speak_result' # speak_result =>
                    /\ speak_result' = "False"
                    /\ utt' = utt
                    /\ is_speaking' = is_speaking
                    /\ lt_available' = lt_available
      ]_vars

\* a task whose process failed to start has ended, a later task is
\* running, and a speak() call made meanwhile was refused
C38_Witness ==
    /\ is_speaking
    /\ lt_available
    /\ speak_result = "False"
    /\ \E i \in Utterances : utt[i] = "done"
    /\ \E i \in Utterances : utt[i] = "playing"

\* text.lower().strip() of the two texts is the same
SameVoiceText(a, b) == Strip(Lower(a)) = Strip(Lower(b))

\* C39: when _process_voice_input is given a text that equals, but for
\* case and surrounding whitespace, one it accepted less than 3 seconds
\* (6 half seconds) before, it does nothing with it: no entry in the
\* history, no call of the assistant, no reply to send or to speak, no
\* speech task; every other text, the same text after the window
\* included, is accepted: process_message is called for it and it is
\* remembered with the present time; an accepted input is forgotten only
\* once it is 3 seconds old
C39_DuplicateSuppression ==
    [][ /\ (Len(voice_queue') < Len(voice_queue)
               /\ Head(voice_queue) # <<>>) =>
              LET text == Head(voice_queue)
              IN  IF \E r \in recent_voice_inputs :
                        /\ SameVoiceText(r.msg, text)
                        /\ clock - r.timestamp < 2 * 3
                  THEN /\ vh'.duplicate /\ vh'.pc = "idle"
                       /\ conversation_history' = conversation_history
                       /\ ai_last' = ai_last
                       /\ recent_voice_responses' = recent_voice_responses
                       /\ utt' = utt /\ resume_tasks' = resume_tasks
                  ELSE /\ ~vh'.duplicate
                       /\ ai_last'.op = "process_message"
                       /\ ai_last'.message = text
                       /\ conversation_history' # conversation_history
                       /\ conversation_history'[Len(conversation_history')]
                              .message = text
                       /\ [msg |-> text, timestamp |-> clock]
                              \in recent_voice_inputs'
        /\ \A r \in recent_voice_inputs \ recent_voice_inputs' :
              clock - r.timestamp >= 2 * 3
      ]_vars

\* a text was accepted, and the same text, heard again more than 3 seconds
\* after it was heard first but handled less than 3 seconds after the
\* first was accepted, was dropped as a duplicate
C39_Witness ==
    /\ vh.duplicate
    /\ vh.source = "lvl"
    /\ Len(conversation_history) = 1
    /\ SameVoiceText(conversation_history[1].message, vh.text)
====
